---- MODULE Spec2Model ----
(***************************************************************************)
(* Lever-Analyzer: the scoring dispatcher (resume_analyzer.py) and the     *)
(* location engine with the two-phase candidate filter (location_utils.py, *)
(* app.py).                                                                *)
(*                                                                         *)
(* BatchSpec  - one call of analyze_candidates_batch: the thread pool, the *)
(*              retrying scoring call, the completion loop and the sort.   *)
(* RequestSpec - the same call for batches of up to one request more than *)
(*              the pool holds, followed request by request.               *)
(* FairRequestSpec - RequestSpec with the threads scheduled fairly, for    *)
(*              what the call eventually does.                             *)
(* FilterSpec - one use of the location filter, directly or by the handler *)
(*              of app.py.                                                 *)
(* CallSpec   - one call of get_candidate_location_multi_source,           *)
(*              normalize_location or locations_match.                     *)
(* FetchSpec  - one call of fetch_candidates_for_posting of                *)
(*              lever_client.py against the paginated API.                 *)
(***************************************************************************)
EXTENDS Integers, Sequences, FiniteSets, TLC

VARIABLES
    bpc,            \* position of the thread running analyze_candidates_batch
    items,          \* candidates_with_resumes: the candidate of each item
    futures,        \* per submitted item: the state of its future
    finished_q,     \* futures as_completed will yield next, in yield order
    results,        \* the results list of analyze_candidates_batch
    callbacks,      \* calls of progress_callback so far, <<completed, total>>
    ranked,         \* the list analyze_candidates_batch returned
    fpc,            \* position of the thread running a location filter
    all_candidates, \* the candidate list handed to the filter or the handler
    ss_country_filters,         \* st.session_state.country_filters
    ss_location_filters,        \* st.session_state.location_filters
    filter_text,    \* the location_filter argument of a direct call
    once,           \* the run of a filter function on all_candidates
    twice,          \* the run of the same function on the list once returned
    candidates_matched_lever,   \* handler: matched on the structured field
    candidates_no_location,     \* handler: no structured field, to be checked
    candidates_to_fetch,        \* handler: the candidates resumes are fetched for
    fetched,        \* ids passed to get_resume_text_for_candidate, in call order
    candidates_with_resumes,    \* handler: the items kept for the analysis
    deep,           \* handler: the run of the filter on the fetched resumes
    lpc,            \* position of the thread calling a location function
    lcall,          \* the function called and its arguments
    lret,           \* what the call returned
    apc,            \* position of the thread in fetch_candidates_for_posting
    fetch_args,     \* the arguments fetch_candidates_for_posting is called with
    api_pages,      \* the pages of opportunities the API holds for the posting
    api_requests,   \* the params of every requests.get so far
    fetch_offset,   \* offset: the page to ask for next
    fetch_candidates,           \* candidates: the list built so far
    fetch_result    \* what fetch_candidates_for_posting returned or raised

bvars == <<bpc, items, futures, finished_q, results, callbacks, ranked>>

fvars == <<fpc, all_candidates, ss_country_filters, ss_location_filters, filter_text,
           once, twice, candidates_matched_lever, candidates_no_location,
           candidates_to_fetch, fetched, candidates_with_resumes, deep>>

lvars == <<lpc, lcall, lret>>

avars == <<apc, fetch_args, api_pages, api_requests, fetch_offset, fetch_candidates,
           fetch_result>>

vars == <<bvars, fvars, lvars, avars>>

(***************************************************************************)
(* Bounds of the model and constants of the program.                       *)
(***************************************************************************)
MaxBatch == 4
PoolSize == 3
MaxAttempts == 3

\* the overall_score a reply can carry: a low and a high one, which is what
\* ties and inversions between the entries of a batch need
Scores == {0, 1}

Range(s) == {s[k] : k \in DOMAIN s}

RECURSIVE Perms(_)
\* every ordering of a finite set, as sequences
Perms(S) ==
    IF S = {} THEN {<<>>}
    ELSE UNION {{<<x>> \o p : p \in Perms(S \ {x})} : x \in S}

(***************************************************************************)
(* analyze_single_resume: the analysis dicts it can return.                *)
(*   of      - the item whose resume text the analysis was computed from   *)
(*             (history field, not in the code's dict)                     *)
(*   error   - the dict's "error" entry; FALSE when the key is absent      *)
(*   summary - "Analysis error" on the degraded path, the payload's text   *)
(*             on success, "" when the key is absent                       *)
(***************************************************************************)
NoAnalysis == [of |-> 0, overall_score |-> 0, error |-> FALSE, summary |-> ""]

\* lines 172-174: json.loads succeeded, overall_score coerced to float
ScoredAnalysis(i, s) ==
    [of |-> i, overall_score |-> s, error |-> FALSE, summary |-> "payload"]

\* line 176: the bare except of analyze_single_resume
DegradedAnalysis(i) ==
    [of |-> i, overall_score |-> 0, error |-> TRUE, summary |-> "Analysis error"]

\* line 218: the except branch of the completion loop
FallbackAnalysis(i) ==
    [of |-> i, overall_score |-> 0, error |-> FALSE, summary |-> ""]

\* tenacity: retry=retry_if_exception(is_rate_limit_error), stop_after_attempt(3)
is_rate_limit_error(failure) == failure = "rate_limit"

\* every failure is retried while attempts remain
ShouldRetryAny(failure, attempts) == attempts < MaxAttempts

\* the call is made again after a failure: attempts is the number of
\* attempts made so far, the failed one included
ShouldRetry(failure, attempts) ==
    is_rate_limit_error(failure) /\ attempts < MaxAttempts

(***************************************************************************)
(* results.sort(key=overall_score, reverse=True): a stable sort, so equal  *)
(* keys keep the order they have in the list being sorted.                 *)
(***************************************************************************)
RECURSIVE InsertByScore(_, _)
InsertByScore(sorted, r) ==
    IF sorted = <<>> THEN <<r>>
    ELSE IF Head(sorted).analysis.overall_score >= r.analysis.overall_score
         THEN <<Head(sorted)>> \o InsertByScore(Tail(sorted), r)
         ELSE <<r>> \o sorted

RECURSIVE InsertByScoreAsc(_, _)
InsertByScoreAsc(sorted, r) ==
    IF sorted = <<>> THEN <<r>>
    ELSE IF Head(sorted).analysis.overall_score <= r.analysis.overall_score
         THEN <<Head(sorted)>> \o InsertByScoreAsc(Tail(sorted), r)
         ELSE <<r>> \o sorted

RECURSIVE SortByScoreAsc(_)
\* the sort with reverse=True left out
SortByScoreAsc(list) ==
    IF list = <<>> THEN <<>>
    ELSE InsertByScoreAsc(SortByScoreAsc(SubSeq(list, 1, Len(list) - 1)),
                          list[Len(list)])

RECURSIVE SortByScoreDesc(_)
SortByScoreDesc(list) ==
    IF list = <<>> THEN <<>>
    ELSE InsertByScore(SortByScoreDesc(SubSeq(list, 1, Len(list) - 1)),
                       list[Len(list)])

(***************************************************************************)
(* analyze_candidates_batch                                                *)
(***************************************************************************)
NewFuture == [state |-> "queued", attempts |-> 0, raised |-> FALSE,
              analysis |-> NoAnalysis]

Running == {i \in DOMAIN futures : futures[i].state = "running"}
Queued  == {i \in DOMAIN futures : futures[i].state = "queued"}

\* no location function is being called
CallIdle ==
    /\ lpc = "idle"
    /\ lcall = [fn |-> "", args |-> <<>>]
    /\ lret = ""

\* fetch_candidates_for_posting is not being called
FetchIdle ==
    /\ apc = "idle"
    /\ fetch_args = <<>>
    /\ api_pages = <<>>
    /\ api_requests = <<>>
    /\ fetch_offset = ""
    /\ fetch_candidates = <<>>
    /\ fetch_result = <<>>

\* no filter and no handler is running
FilterIdle ==
    /\ fpc = "idle"
    /\ all_candidates = <<>>
    /\ ss_country_filters = <<>>
    /\ ss_location_filters = <<>>
    /\ filter_text = ""
    /\ once = [fn |-> "", run |-> [filtered |-> <<>>, detected |-> <<>>, matches |-> 0]]
    /\ twice = [fn |-> "", run |-> [filtered |-> <<>>, detected |-> <<>>, matches |-> 0]]
    /\ candidates_matched_lever = <<>>
    /\ candidates_no_location = <<>>
    /\ candidates_to_fetch = <<>>
    /\ fetched = <<>>
    /\ candidates_with_resumes = <<>>
    /\ deep = [filtered |-> <<>>, detected |-> <<>>, matches |-> 0]

\* no batch is running
BatchIdle ==
    /\ bpc = "idle"
    /\ items = <<>>
    /\ futures = <<>>
    /\ finished_q = <<>>
    /\ results = <<>>
    /\ callbacks = <<>>
    /\ ranked = <<>>

BatchInit ==
    /\ FilterIdle
    /\ CallIdle
    /\ FetchIdle
    /\ bpc = "submit"
    /\ \E n \in 0..MaxBatch : items = [i \in 1..n |-> i]
    /\ futures = <<>>
    /\ finished_q = <<>>
    /\ results = <<>>
    /\ callbacks = <<>>
    /\ ranked = <<>>

\* every submitted item runs at once, whatever the pool holds
DispatchAll(fs) ==
    [i \in DOMAIN fs |->
       IF fs[i].state = "queued" THEN [fs[i] EXCEPT !.state = "running"] ELSE fs[i]]

\* ThreadPoolExecutor(max_workers=3): the work queue is first-in first-out and
\* a thread takes the oldest queued item as soon as it is free, so the items
\* in flight after a change are the running ones plus the oldest queued ones
\* up to the pool size
Dispatch(fs) ==
    LET running == {i \in DOMAIN fs : fs[i].state = "running"}
        queued  == {i \in DOMAIN fs : fs[i].state = "queued"}
        free    == PoolSize - Cardinality(running)
        taken   == {i \in queued : Cardinality({j \in queued : j < i}) < free}
    IN  [i \in DOMAIN fs |->
           IF i \in taken THEN [fs[i] EXCEPT !.state = "running"] ELSE fs[i]]

\* line 213: executor.submit(process_candidate, item) for every item; the
\* workers run from here on, concurrently with the submitting thread
Submit ==
    /\ bpc = "submit"
    /\ futures' = Dispatch([i \in 1..Len(items) |-> NewFuture])
    /\ bpc' = "submitted"
    /\ UNCHANGED <<items, finished_q, results, callbacks, ranked, fvars, lvars, avars>>

\* A worker step and an iteration of the completion loop commute: the loop
\* touches only results and callbacks, a worker only its future and the queue
\* of finished futures. The model therefore lets the loop consume a yielded
\* future before the next worker step is taken.
LoopIdle == bpc # "collect" \/ finished_q = <<>>

RECURSIVE SortedInsert(_, _)
SortedInsert(q, i) ==
    IF q = <<>> THEN <<i>>
    ELSE IF Head(q) < i THEN <<Head(q)>> \o SortedInsert(Tail(q), i)
         ELSE <<i>> \o q

\* the future of item i finishes and its thread takes the next queued item
Finish(i, raised, analysis) ==
    /\ futures' = Dispatch([futures EXCEPT ![i].state = "finished",
                                           ![i].attempts = 0,
                                           ![i].raised = raised,
                                           ![i].analysis = analysis])
    /\ finished_q' = IF bpc = "collect" THEN Append(finished_q, i)
                     ELSE SortedInsert(finished_q, i)

\* lines 199-209 and 51, 104-112: process_candidate raises before the scoring
\* call (an item without "resume_text", a requirement without "weight")
WorkerRaise(i) ==
    /\ LoopIdle
    /\ i \in Running
    /\ futures[i].attempts = 0
    /\ Finish(i, TRUE, NoAnalysis)
    /\ UNCHANGED <<bpc, items, results, callbacks, ranked, fvars, lvars, avars>>

\* lines 162-174: one attempt of call_openai returns a payload that parses
CallSucceeds(i) ==
    /\ LoopIdle
    /\ i \in Running
    /\ futures[i].attempts < MaxAttempts
    /\ \E s \in Scores : Finish(i, FALSE, ScoredAnalysis(i, s))
    /\ UNCHANGED <<bpc, items, results, callbacks, ranked, fvars, lvars, avars>>

\* lines 172-176: the payload is returned but json.loads or float() raises
CallUnparseable(i) ==
    /\ LoopIdle
    /\ i \in Running
    /\ futures[i].attempts < MaxAttempts
    /\ Finish(i, FALSE, DegradedAnalysis(i))
    /\ UNCHANGED <<bpc, items, results, callbacks, ranked, fvars, lvars, avars>>

\* lines 162-176: one attempt of call_openai raises; tenacity retries a rate
\* limit while attempts remain, any other outcome reaches the bare except
\* a rate limit is retried whatever the number of attempts made
CallFailsWithNoStop(i, failure) ==
    /\ LoopIdle
    /\ i \in Running
    /\ IF is_rate_limit_error(failure)
       THEN /\ futures' = [futures EXCEPT ![i].attempts = (@ + 1) % MaxAttempts]
            /\ UNCHANGED finished_q
       ELSE Finish(i, FALSE, DegradedAnalysis(i))
    /\ UNCHANGED <<bpc, items, results, callbacks, ranked, fvars, lvars, avars>>

CallFailsWith(i, failure) ==
    /\ LoopIdle
    /\ i \in Running
    /\ futures[i].attempts < MaxAttempts
    /\ IF ShouldRetry(failure, futures[i].attempts + 1)
       THEN /\ futures' = [futures EXCEPT ![i].attempts = @ + 1]
            /\ UNCHANGED finished_q
       ELSE Finish(i, FALSE, DegradedAnalysis(i))
    /\ UNCHANGED <<bpc, items, results, callbacks, ranked, fvars, lvars, avars>>

CallFails(i) == \E failure \in {"rate_limit", "other"} : CallFailsWith(i, failure)

\* the entry pairs the analysis with the candidate of the next item
ResultOfNextItem(i) ==
    IF futures[i].raised
    THEN [candidate |-> items[(i % Len(items)) + 1], analysis |-> FallbackAnalysis(i)]
    ELSE [candidate |-> items[(i % Len(items)) + 1], analysis |-> futures[i].analysis]

\* lines 215-218: the entry appended for a yielded future
ResultOf(i) ==
    IF futures[i].raised
    THEN [candidate |-> items[i], analysis |-> FallbackAnalysis(i)]
    ELSE [candidate |-> items[i], analysis |-> futures[i].analysis]

RECURSIVE LoopOverDropRaised(_, _, _)
\* the completion loop with an except branch that appends nothing
LoopOverDropRaised(order, acc, total) ==
    IF order = <<>> THEN acc
    ELSE IF futures[Head(order)].raised
         THEN LoopOverDropRaised(Tail(order),
                                 <<acc[1], Append(acc[2], <<Len(acc[1]), total>>)>>,
                                 total)
         ELSE LET res == Append(acc[1], ResultOf(Head(order)))
              IN  LoopOverDropRaised(Tail(order),
                                     <<res, Append(acc[2], <<Len(res), total>>)>>,
                                     total)

RECURSIVE LoopOverCallbackInTry(_, _, _)
\* the completion loop with the progress_callback call inside the try block
LoopOverCallbackInTry(order, acc, total) ==
    IF order = <<>> THEN acc
    ELSE LET res == Append(acc[1], ResultOf(Head(order)))
         IN  LoopOverCallbackInTry(
                 Tail(order),
                 <<res, IF futures[Head(order)].raised THEN acc[2]
                        ELSE Append(acc[2], <<Len(res), total>>)>>,
                 total)

RECURSIVE LoopOverLostUpdate(_, _, _)
\* the completion loop writing each entry over the last one, as an append
\* that is not synchronized may
LoopOverLostUpdate(order, acc, total) ==
    IF order = <<>> THEN acc
    ELSE LET res == IF acc[1] = <<>> THEN <<ResultOf(Head(order))>>
                    ELSE [acc[1] EXCEPT ![Len(acc[1])] = ResultOf(Head(order))]
         IN  LoopOverLostUpdate(Tail(order),
                                <<res, Append(acc[2], <<Len(acc[2]) + 1, total>>)>>,
                                total)

RECURSIVE LoopOver(_, _, _)
\* lines 214-219: the completion loop run over the futures of `order`, from
\* the lists <<results, callbacks>> given in `acc`; each iteration appends
\* one entry and then calls progress_callback(len(results), total)
LoopOver(order, acc, total) ==
    IF order = <<>> THEN acc
    ELSE LET res == Append(acc[1], ResultOf(Head(order)))
         IN  LoopOver(Tail(order), <<res, Append(acc[2], <<Len(res), total>>)>>,
                      total)

\* the order in which as_completed yields the futures that had finished
\* before it was called: it collects them in a set, so the order is any one
YieldOrders(done) == Perms(Range(done))

\* line 214: as_completed(futures) is entered after the submissions; the
\* futures finished by then are yielded first and the loop runs over them
AsCompleted ==
    /\ bpc = "submitted"
    /\ bpc' = "collect"
    /\ \E order \in YieldOrders(finished_q) :
          LET acc == LoopOver(order, <<results, callbacks>>, Len(items))
          IN  /\ results' = acc[1]
              /\ callbacks' = acc[2]
    /\ finished_q' = <<>>
    /\ UNCHANGED <<items, futures, ranked, fvars, lvars, avars>>

\* lines 214-219: a future that finishes later is yielded when it finishes
Collect ==
    /\ bpc = "collect"
    /\ finished_q # <<>>
    /\ LET acc == LoopOver(<<Head(finished_q)>>, <<results, callbacks>>, Len(items))
       IN  /\ results' = acc[1]
           /\ callbacks' = acc[2]
    /\ finished_q' = Tail(finished_q)
    /\ UNCHANGED <<bpc, items, futures, ranked, fvars, lvars, avars>>

\* lines 221-222: every future was yielded; sort and return
SortAndReturn ==
    /\ bpc = "collect"
    /\ finished_q = <<>>
    /\ \A i \in DOMAIN futures : futures[i].state = "finished"
    /\ ranked' = SortByScoreDesc(results)
    /\ bpc' = "returned"
    /\ UNCHANGED <<items, futures, finished_q, results, callbacks, fvars, lvars, avars>>

BatchNext ==
    \/ Submit
    \/ AsCompleted
    \/ \E i \in 1..MaxBatch : WorkerRaise(i)
    \/ \E i \in 1..MaxBatch : CallSucceeds(i)
    \/ \E i \in 1..MaxBatch : CallUnparseable(i)
    \/ \E i \in 1..MaxBatch : CallFails(i)
    \/ Collect
    \/ SortAndReturn

BatchSpec == BatchInit /\ [][BatchNext]_vars

\* The life of one request is followed in batches of up to one request more
\* than the pool holds: the smallest batches in which a request waits for a
\* worker while the others are attempted, retried and resolved.
MaxRequests == PoolSize + 1

RequestInit == BatchInit /\ Len(items) <= MaxRequests

RequestSpec == RequestInit /\ [][BatchNext]_vars

\* what the thread of item i does next: process_candidate raises, or the
\* attempt of call_openai it waits for returns or fails
WorkerStep(i) ==
    WorkerRaise(i) \/ CallSucceeds(i) \/ CallUnparseable(i) \/ CallFails(i)

\* The calling thread and the pool's threads are scheduled by the operating
\* system: each keeps running while it has a step to take. A thread that
\* waits in chat.completions.create (lines 164-168) takes its step when the
\* reply arrives or the request fails, at the latest when the request timeout
\* of the OpenAI client built at line 11 expires, and the backoff of @retry
\* sleeps at most 10 seconds (line 162).
Scheduling ==
    /\ WF_vars(Submit)
    /\ WF_vars(AsCompleted)
    /\ WF_vars(Collect)
    /\ WF_vars(SortAndReturn)
    /\ \A i \in 1..MaxRequests : WF_vars(WorkerStep(i))

FairRequestSpec == RequestSpec /\ Scheduling

(***************************************************************************)
(* Strings. A string is a TLA+ string; the operators below are the Python  *)
(* string operations location_utils.py uses, computed character by         *)
(* character. None is Python's None where the code expects a string.       *)
(***************************************************************************)
None == "<None>"

\* Python truthiness of an optional string
Truthy(s) == s # None /\ s # ""

UpperLetters == "ABCDEFGHIJKLMNOPQRSTUVWXYZ"
LowerLetters == "abcdefghijklmnopqrstuvwxyz"
DigitChars == "0123456789"

CharsOf(s) == {SubSeq(s, i, i) : i \in 1..Len(s)}

UpperSet == CharsOf(UpperLetters)
LowerSet == CharsOf(LowerLetters)
DigitSet == CharsOf(DigitChars)
LetterSet == UpperSet \cup LowerSet
\* \w
WordSet == LetterSet \cup DigitSet \cup {"_"}
\* \s
SpaceSet == {" ", "\n", "\t", "\r"}

LowerMap ==
    [c \in UpperSet |->
        LET i == CHOOSE k \in 1..Len(UpperLetters) : SubSeq(UpperLetters, k, k) = c
        IN  SubSeq(LowerLetters, i, i)]

CharAt(s, i) == IF i >= 1 /\ i <= Len(s) THEN SubSeq(s, i, i) ELSE ""

\* s[i-1:j], positions past the end left out
Slice(s, i, j) == SubSeq(s, i, IF j > Len(s) THEN Len(s) ELSE j)

RECURSIVE Lower(_)
\* str.lower()
Lower(s) ==
    IF s = "" THEN ""
    ELSE (IF Head(s) \in UpperSet THEN LowerMap[Head(s)] ELSE Head(s)) \o Lower(Tail(s))

RECURSIVE LStrip(_)
LStrip(s) == IF s # "" /\ Head(s) \in SpaceSet THEN LStrip(Tail(s)) ELSE s

RECURSIVE RStrip(_)
RStrip(s) ==
    IF s # "" /\ CharAt(s, Len(s)) \in SpaceSet
    THEN RStrip(SubSeq(s, 1, Len(s) - 1))
    ELSE s

\* str.strip()
Strip(s) == RStrip(LStrip(s))

\* a in b
Contains(b, a) ==
    \E i \in 1..(Len(b) - Len(a) + 1) : SubSeq(b, i, i + Len(a) - 1) = a

RECURSIVE SplitFrom(_, _, _)
SplitFrom(s, seps, cur) ==
    IF s = "" THEN <<cur>>
    ELSE IF Head(s) \in seps
         THEN <<cur>> \o SplitFrom(Tail(s), seps, "")
         ELSE SplitFrom(Tail(s), seps, cur \o Head(s))

\* re.split on a class of single characters, str.split(sep)
Split(s, seps) == SplitFrom(s, seps, "")

RECURSIVE StripAndDropEmpty(_)
\* [p.strip() for p in parts if p.strip()]
StripAndDropEmpty(parts) ==
    IF parts = <<>> THEN <<>>
    ELSE IF Strip(Head(parts)) = ""
         THEN StripAndDropEmpty(Tail(parts))
         ELSE <<Strip(Head(parts))>> \o StripAndDropEmpty(Tail(parts))

(***************************************************************************)
(* Reference tables. REGION_MAPPINGS is an excerpt of the table of         *)
(* location_utils.py, in the table's order; US_STATES and COUNTRIES are    *)
(* excerpts of the tables of the libraries us and country_converter.       *)
(***************************************************************************)
REGION_MAPPINGS == <<
    [name |-> "bay area",
     cities |-> <<"san francisco", "south san francisco", "oakland", "newark",
                  "san jose", "los altos">>],
    [name |-> "silicon valley",
     cities |-> <<"san jose", "palo alto", "los altos">>],
    [name |-> "greater seattle",
     cities |-> <<"seattle", "bellevue", "redmond">>],
    [name |-> "nyc metro",
     cities |-> <<"new york", "brooklyn", "newark", "jersey city">>] >>

US_STATES == <<
    [name |-> "California", abbr |-> "CA"],
    [name |-> "Washington", abbr |-> "WA"],
    [name |-> "Texas", abbr |-> "TX"],
    [name |-> "New York", abbr |-> "NY"],
    [name |-> "New Jersey", abbr |-> "NJ"],
    [name |-> "Pennsylvania", abbr |-> "PA"],
    [name |-> "Massachusetts", abbr |-> "MA"] >>

COUNTRIES == <<
    [name_short |-> "United States", ISO3 |-> "USA", ISO2 |-> "US",
     names |-> {"unitedstates"}],
    [name_short |-> "Canada", ISO3 |-> "CAN", ISO2 |-> "CA",
     names |-> {"canada"}],
    [name_short |-> "United Kingdom", ISO3 |-> "GBR", ISO2 |-> "GB",
     names |-> {"unitedkingdom", "britain"}] >>

\* the mark of a call that raised instead of returning
Raised == "<raised>"

NoState == [name |-> None, abbr |-> None]
NoCountry == [name_short |-> None, ISO3 |-> None, ISO2 |-> None, names |-> {}]
NoRegion == [name |-> None, cities |-> <<>>]

\* us.states.lookup(part): a two-letter value is looked up as an
\* abbreviation, any other value by name; NoState when nothing is found
StateLookup(part) ==
    IF \E k \in DOMAIN US_STATES :
          Lower(part) = Lower(IF Len(part) = 2 THEN US_STATES[k].abbr
                              ELSE US_STATES[k].name)
    THEN US_STATES[CHOOSE k \in DOMAIN US_STATES :
                      Lower(part) = Lower(IF Len(part) = 2 THEN US_STATES[k].abbr
                                          ELSE US_STATES[k].name)]
    ELSE NoState

\* cc.convert(part, to=...): a two-letter value is matched against ISO2, a
\* three-letter value against ISO3, any other value against the names;
\* NoCountry stands for 'not found'
IsCountry(country, part) ==
    IF Len(part) = 2 THEN Lower(country.ISO2) = Lower(part)
    ELSE IF Len(part) = 3 THEN Lower(country.ISO3) = Lower(part)
    ELSE \E n \in country.names : Contains(Lower(part), n)

CountryLookup(part) ==
    IF \E k \in DOMAIN COUNTRIES : IsCountry(COUNTRIES[k], part)
    THEN COUNTRIES[CHOOSE k \in DOMAIN COUNTRIES : IsCountry(COUNTRIES[k], part)]
    ELSE NoCountry

(***************************************************************************)
(* The data of the model: the candidates and resumes the applicant         *)
(* tracking system can return and the filters the user can set.            *)
(***************************************************************************)
MaxCands == 3

NoCandidate == [id |-> "", location |-> None, locations |-> <<>>,
                contact_location |-> None, phones |-> <<>>, contact_phone |-> None]

\* the candidates the applicant tracking system can return
CandidatePool == <<
    [NoCandidate EXCEPT !.id = "1", !.location = "San Francisco, CA",
                        !.phones = <<"512-555-0199">>],
    [NoCandidate EXCEPT !.id = "2", !.location = "Austin, TX"],
    [NoCandidate EXCEPT !.id = "3"],
    [NoCandidate EXCEPT !.id = "4", !.locations = <<"Newark, NJ">>],
    [NoCandidate EXCEPT !.id = "5", !.contact_phone = "(415) 555-1234"],
    [NoCandidate EXCEPT !.id = "6", !.location = "  "],
    [NoCandidate EXCEPT !.id = "7", !.contact_location = "Toronto, Canada"],
    [NoCandidate EXCEPT !.id = "8", !.phones = <<"n/a">>],
    [NoCandidate EXCEPT !.id = "9", !.location = "Bay Area"] >>

\* get_resume_text_for_candidate(id): the parsed text, None without one
ResumePool == <<
    "Jane Roe\nAustin, TX 78701\nEngineer",
    "Sam Poe - Austin, TX",
    "John Doe\nSeattle, WA 98101\n(206) 555-0100",
    None,
    None,
    "Profile\nlocation: oakland, ca",
    "Objective: build things",
    "Summary: ten years of experience",
    "Ann Lee\nEngineer" >>

get_resume_text_for_candidate(id) ==
    LET k == CHOOSE n \in DOMAIN CandidatePool : CandidatePool[n].id = id
    IN  ResumePool[k]

\* the filter lists the sidebar can hold (stripped, non-empty, no duplicate
\* in a list) and a location_filter argument for a direct call
FilterSamples == <<
    [country_filters |-> <<>>, location_filters |-> <<>>, location_filter |-> ""],
    [country_filters |-> <<>>, location_filters |-> <<>>, location_filter |-> " \n  "],
    [country_filters |-> <<>>, location_filters |-> <<"California", "Washington">>,
     location_filter |-> "California\n\n Washington "],
    [country_filters |-> <<>>, location_filters |-> <<"Bay Area">>,
     location_filter |-> "Bay Area"],
    [country_filters |-> <<>>, location_filters |-> <<"NYC Metro", "Bay Area">>,
     location_filter |-> "NYC Metro\nBay Area"],
    [country_filters |-> <<"Canada">>, location_filters |-> <<"Texas">>,
     location_filter |-> "Canada\nTexas"],
    [country_filters |-> <<"USA">>, location_filters |-> <<>>,
     location_filter |-> "USA"],
    [country_filters |-> <<>>, location_filters |-> <<"Newark", "New Jersey">>,
     location_filter |-> "Newark\nNew Jersey"] >>

(***************************************************************************)
(* expand_region, normalize_location, locations_match                      *)
(***************************************************************************)
RECURSIVE FirstRegion(_, _)
FirstRegion(regions, location_lower) ==
    IF regions = <<>> THEN NoRegion
    ELSE IF Contains(location_lower, Head(regions).name)
         THEN Head(regions)
         ELSE FirstRegion(Tail(regions), location_lower)

\* no region is expanded
ExpandRegionNever(location) == <<location>>

\* lines 152-170
expand_region(location) ==
    LET region == FirstRegion(REGION_MAPPINGS, Strip(Lower(location)))
    IN  IF region.name = None THEN <<location>> ELSE region.cities

EmptyNorm == [city |-> None, state |-> None, state_abbr |-> None,
              country |-> None, country_code |-> None, original |-> ""]

CityPrefixWords == {"san", "los", "new", "fort", "saint", "mount"}

\* what a call of normalize_location that raised would hand back
RaisedNorm == [EmptyNorm EXCEPT !.original = Raised]

\* lines 229-233, the body of the try: cc.convert(part, to='name_short'),
\* then for a country found the two assignments and the continue. done
\* tells that the continue was reached, raised that a call of cc.convert
\* raised; convert_raises is the call that raises ("no" for none)
TryCountry(result, country, convert_raises) ==
    IF convert_raises = "name_short"
    THEN [result |-> result, done |-> FALSE, raised |-> TRUE]
    ELSE IF country.name_short = None
    THEN [result |-> result, done |-> FALSE, raised |-> FALSE]
    ELSE IF convert_raises = "ISO3"
    THEN [result |-> [result EXCEPT !.country = country.name_short],
          done |-> FALSE, raised |-> TRUE]
    ELSE [result |-> [result EXCEPT !.country = country.name_short,
                                    !.country_code = country.ISO3],
          done |-> TRUE, raised |-> FALSE]

\* the try of lines 228-235 with the exception left to the caller
NotSwallowed(attempt) == attempt

\* lines 234-235: except Exception: pass
Swallowed(attempt) == [attempt EXCEPT !.raised = FALSE]

\* every part that is no state and no country becomes the city
ClassifiedLastCity(result, part, state, attempt) ==
    IF state.name # None
    THEN [result EXCEPT !.state = state.name, !.state_abbr = state.abbr,
                        !.country = "United States", !.country_code = "USA"]
    ELSE IF attempt.raised
    THEN RaisedNorm
    ELSE IF attempt.done
    THEN attempt.result
    ELSE [attempt.result EXCEPT !.city = part]

\* lines 218-239: the part goes to the state, else to the country, else to
\* the city when there is none yet
Classified(result, part, state, attempt) ==
    IF state.name # None
    THEN [result EXCEPT !.state = state.name, !.state_abbr = state.abbr,
                        !.country = "United States", !.country_code = "USA"]
    ELSE IF attempt.raised
    THEN RaisedNorm
    ELSE IF attempt.done
    THEN attempt.result
    ELSE IF ~Truthy(attempt.result.city)
    THEN [attempt.result EXCEPT !.city = part]
    ELSE attempt.result

\* lines 215-239: one iteration of the loop over the parts
ClassifyPart(result, part, convert_raises) ==
    Classified(result, part, StateLookup(part),
               IF ~Contains(part, " ") /\ Lower(part) \notin CityPrefixWords
               THEN Swallowed(TryCountry(result, CountryLookup(part), convert_raises))
               ELSE [result |-> result, done |-> FALSE, raised |-> FALSE])

RECURSIVE ClassifyParts(_, _, _)
ClassifyParts(result, parts, convert_raises) ==
    IF parts = <<>> \/ result.original = Raised THEN result
    ELSE ClassifyParts(ClassifyPart(result, Head(parts), convert_raises), Tail(parts),
                       convert_raises)

\* lines 241-244
DefaultCountry(result) ==
    IF Truthy(result.state) /\ ~Truthy(result.country)
    THEN [result EXCEPT !.country = "United States", !.country_code = "USA"]
    ELSE result

\* lines 185-246, with the call of cc.convert that raises
NormalizeWhen(location, convert_raises) ==
    IF ~Truthy(location) THEN EmptyNorm
    ELSE DefaultCountry(
             ClassifyParts([EmptyNorm EXCEPT !.original = Strip(location)],
                 StripAndDropEmpty(Split(Strip(location), {",", ";", "/", "-"})),
                 convert_raises))

normalize_location(location) == NormalizeWhen(location, "no")

\* lines 315-320: the words of a lower-cased location, short words removed
Words(loc_lower) ==
    {w \in Range(Split(loc_lower, SpaceSet \cup {",", ";", "/", "-"})) : Len(w) > 1}

\* the match with the states of one country not compared
MatchNormalizedCountryOnly(norm1, norm2) ==
    IF Lower(norm1.original) = Lower(norm2.original) THEN TRUE
    ELSE IF Truthy(norm1.country) /\ Truthy(norm2.country)
    THEN IF Lower(norm1.country) = Lower(norm2.country)
         THEN TRUE
         ELSE FALSE
    ELSE IF Truthy(norm1.state) /\ Truthy(norm2.state)
    THEN Lower(norm1.state) = Lower(norm2.state)
    ELSE IF /\ Truthy(norm1.state) /\ Truthy(norm2.country)
            /\ Contains(Lower(norm2.country), "united states")
    THEN TRUE
    ELSE IF /\ Truthy(norm2.state) /\ Truthy(norm1.country)
            /\ Contains(Lower(norm1.country), "united states")
    THEN TRUE
    ELSE IF /\ Truthy(norm1.city) /\ Truthy(norm2.city)
            /\ \/ Contains(Lower(norm2.city), Lower(norm1.city))
               \/ Contains(Lower(norm1.city), Lower(norm2.city))
    THEN TRUE
    ELSE Words(Lower(norm1.original)) \cap Words(Lower(norm2.original)) # {}

\* the match with two different countries left to the later rules
MatchNormalizedNoVeto(norm1, norm2) ==
    IF Lower(norm1.original) = Lower(norm2.original) THEN TRUE
    ELSE IF /\ Truthy(norm1.country) /\ Truthy(norm2.country)
            /\ Lower(norm1.country) = Lower(norm2.country)
    THEN IF Truthy(norm1.state) /\ Truthy(norm2.state)
         THEN Lower(norm1.state) = Lower(norm2.state)
         ELSE TRUE
    ELSE IF Truthy(norm1.state) /\ Truthy(norm2.state)
    THEN Lower(norm1.state) = Lower(norm2.state)
    ELSE IF /\ Truthy(norm1.state) /\ Truthy(norm2.country)
            /\ Contains(Lower(norm2.country), "united states")
    THEN TRUE
    ELSE IF /\ Truthy(norm2.state) /\ Truthy(norm1.country)
            /\ Contains(Lower(norm1.country), "united states")
    THEN TRUE
    ELSE IF /\ Truthy(norm1.city) /\ Truthy(norm2.city)
            /\ \/ Contains(Lower(norm2.city), Lower(norm1.city))
               \/ Contains(Lower(norm1.city), Lower(norm2.city))
    THEN TRUE
    ELSE Words(Lower(norm1.original)) \cap Words(Lower(norm2.original)) # {}

\* within one country the match is decided by the states of the first
\* location alone
MatchNormalizedStateOfFirst(norm1, norm2) ==
    IF Lower(norm1.original) = Lower(norm2.original) THEN TRUE
    ELSE IF Truthy(norm1.country) /\ Truthy(norm2.country)
    THEN IF Lower(norm1.country) = Lower(norm2.country)
         THEN IF Truthy(norm1.state) /\ Truthy(norm2.state)
              THEN Lower(norm1.state) = Lower(norm2.state)
              ELSE Truthy(norm1.state)
         ELSE FALSE
    ELSE IF Truthy(norm1.state) /\ Truthy(norm2.state)
    THEN Lower(norm1.state) = Lower(norm2.state)
    ELSE IF /\ Truthy(norm1.city) /\ Truthy(norm2.city)
            /\ \/ Contains(Lower(norm2.city), Lower(norm1.city))
               \/ Contains(Lower(norm1.city), Lower(norm2.city))
    THEN TRUE
    ELSE Words(Lower(norm1.original)) \cap Words(Lower(norm2.original)) # {}

\* lines 273-327: the match of two locations once regions are dealt with
MatchNormalized(norm1, norm2) ==
    IF Lower(norm1.original) = Lower(norm2.original) THEN TRUE
    ELSE IF Truthy(norm1.country) /\ Truthy(norm2.country)
    THEN IF Lower(norm1.country) = Lower(norm2.country)
         THEN IF Truthy(norm1.state) /\ Truthy(norm2.state)
              THEN Lower(norm1.state) = Lower(norm2.state)
              ELSE TRUE
         ELSE FALSE
    ELSE IF Truthy(norm1.state) /\ Truthy(norm2.state)
    THEN Lower(norm1.state) = Lower(norm2.state)
    ELSE IF /\ Truthy(norm1.state) /\ Truthy(norm2.country)
            /\ Contains(Lower(norm2.country), "united states")
    THEN TRUE
    ELSE IF /\ Truthy(norm2.state) /\ Truthy(norm1.country)
            /\ Contains(Lower(norm1.country), "united states")
    THEN TRUE
    ELSE IF /\ Truthy(norm1.city) /\ Truthy(norm2.city)
            /\ \/ Contains(Lower(norm2.city), Lower(norm1.city))
               \/ Contains(Lower(norm1.city), Lower(norm2.city))
    THEN TRUE
    ELSE Words(Lower(norm1.original)) \cap Words(Lower(norm2.original)) # {}

RECURSIVE MatchExpanded(_, _, _)
\* lines 263-327: the cities of the region tried first, then the two
\* locations as they are
MatchExpanded(expanded_locations, location1, location2) ==
    IF /\ Len(expanded_locations) > 1
       /\ \E k \in DOMAIN expanded_locations :
             MatchExpanded(<<>>, expanded_locations[k], location2)
    THEN TRUE
    ELSE IF ~Truthy(location1) THEN FALSE
    ELSE MatchNormalized(normalize_location(location1), normalize_location(location2))

locations_match(location1, location2, expanded) ==
    IF ~Truthy(location1) \/ ~Truthy(location2) THEN FALSE
    ELSE MatchExpanded(IF expanded THEN <<>> ELSE expand_region(location1),
                       location1, location2)

(***************************************************************************)
(* The regular expressions of location_utils.py, matched as re matches     *)
(* them: leftmost start first, lazy and greedy repetitions in the order    *)
(* the engine tries them.                                                  *)
(***************************************************************************)
SearchLimit == 2000

\* text[:2000]
SearchText(text) ==
    IF Len(text) > SearchLimit THEN SubSeq(text, 1, SearchLimit) ELSE text

\* [a-zA-Z ]
NameSet == LetterSet \cup {" "}

\* \b before position p
WordBoundary(s, p) == (CharAt(s, p - 1) \in WordSet) # (CharAt(s, p) \in WordSet)

RECURSIVE RunEnd(_, _, _)
\* the first position from p on whose character is not in class
RunEnd(s, p, class) ==
    IF p <= Len(s) /\ CharAt(s, p) \in class THEN RunEnd(s, p + 1, class) ELSE p

AllIn(s, from, to, class) == \A k \in from..to : CharAt(s, k) \in class

\* \s+\d{5}\b with the white space ending before position d
ZipAt(s, p, d) == d > p /\ AllIn(s, d, d + 4, DigitSet) /\ WordBoundary(s, d + 5)

\* (?:\s+\d{5})?\b at position p
ZipAndBoundary(s, p) == ZipAt(s, p, RunEnd(s, p, SpaceSet)) \/ WordBoundary(s, p)

\* the least element of a set of numbers, 0 for the empty set
Least(S) == IF S = {} THEN 0 ELSE CHOOSE n \in S : \A m \in S : n <= m

\* [A-Z][a-zA-Z ]{1,20}? with the shortest length n of the lazy part that
\* lets the rest match, 0 when there is none
LazyStateEnd(k, n) == IF n = 0 THEN 0 ELSE k + 1 + n

\* ([A-Z]{2}|[A-Z][a-zA-Z ]{1,20}?)(?:\s+\d{5})?\b at position k: the
\* position after the second group, 0 when there is no match
StateEnd(s, k) ==
    IF CharAt(s, k) \notin UpperSet THEN 0
    ELSE IF CharAt(s, k + 1) \in UpperSet /\ ZipAndBoundary(s, k + 2) THEN k + 2
    ELSE LazyStateEnd(k, Least({n \in 1..20 : /\ AllIn(s, k + 1, k + n, NameSet)
                                              /\ ZipAndBoundary(s, k + n + 1)}))

\* the two groups, the first from i to the comma at j, the second from k to
\* before e, <<>> when one of the pieces did not match
CityStateGroups(s, i, j, k, e) ==
    IF /\ WordBoundary(s, i) /\ CharAt(s, i) \in UpperSet
       /\ j - (i + 1) >= 1 /\ j - (i + 1) <= 30
       /\ CharAt(s, j) = ","
       /\ e # 0
    THEN <<SubSeq(s, i, j - 1), SubSeq(s, k, e - 1)>>
    ELSE <<>>

CityStateAfterComma(s, i, j, k) == CityStateGroups(s, i, j, k, StateEnd(s, k))

CityStateAfterCity(s, i, j) == CityStateAfterComma(s, i, j, RunEnd(s, j + 1, SpaceSet))

\* city_state_pattern anchored at position i: <<city, state>>, <<>> when
\* there is no match
CityStateAt(s, i) == CityStateAfterCity(s, i, RunEnd(s, i + 1, NameSet))

LocationKeywords == {"location", "based in", "residing in", "address"}

\* the keyword and the colon end before position c
KeywordEnd(s, i, kw) ==
    IF Lower(Slice(s, i, i + Len(kw) - 1)) = kw /\ CharAt(s, i + Len(kw)) = ":"
    THEN i + Len(kw) + 1
    ELSE 0

\* group 1, from p to the two letters at k
KeywordGroup(s, p, j, k) ==
    IF /\ CharAt(s, p) \in LetterSet
       /\ j - (p + 1) >= 1 /\ j - (p + 1) <= 30
       /\ CharAt(s, j) = ","
       /\ CharAt(s, k) \in LetterSet /\ CharAt(s, k + 1) \in LetterSet
    THEN SubSeq(s, p, k + 1)
    ELSE ""

KeywordAfterCity(s, p, j) == KeywordGroup(s, p, j, RunEnd(s, j + 1, SpaceSet))

KeywordAfterColon(s, p) == KeywordAfterCity(s, p, RunEnd(s, p + 1, NameSet))

KeywordFrom(s, c) == IF c = 0 THEN "" ELSE KeywordAfterColon(s, RunEnd(s, c, SpaceSet))

\* location_keyword_pattern anchored at position i: group 1, "" when
\* there is no match
KeywordLocationAt(s, i) ==
    KeywordFrom(s, Least({KeywordEnd(s, i, kw) : kw \in LocationKeywords} \ {0}))

\* f"{city.strip()}, {state.strip()}"
FormatCityState(groups) == Strip(groups[1]) \o ", " \o Strip(groups[2])

\* lines 427-441 with the first position each pattern matches at, 0 when
\* it matches nowhere
LocationAt(s, first, kwfirst) ==
    IF first # 0 THEN FormatCityState(CityStateAt(s, first))
    ELSE IF kwfirst # 0 THEN Strip(KeywordLocationAt(s, kwfirst))
    ELSE None

\* the search of the two patterns in the leading section
SearchLocation(s) ==
    LocationAt(s, Least({i \in 1..Len(s) : CityStateAt(s, i) # <<>>}),
                  Least({i \in 1..Len(s) : KeywordLocationAt(s, i) # ""}))

extract_location_from_resume(resume_text) ==
    IF ~Truthy(resume_text) THEN None ELSE SearchLocation(SearchText(resume_text))

\* an optional separator at position p: the position after it
SkipOne(s, p, class) == IF CharAt(s, p) \in class THEN p + 1 ELSE p

\* three digits from p, three from a, four from b
DigitGroups(s, p, a, b) ==
    IF /\ AllIn(s, p, p + 2, DigitSet)
       /\ AllIn(s, a, a + 2, DigitSet)
       /\ AllIn(s, b, b + 3, DigitSet)
    THEN b + 4
    ELSE 0

DigitsAfterFirst(s, p, a, seps) == DigitGroups(s, p, a, SkipOne(s, a + 3, seps))

\* \d{3}sep?\d{3}sep?\d{4} from position p: the position after the match,
\* 0 when there is no match
DigitsEnd(s, p, seps) == DigitsAfterFirst(s, p, SkipOne(s, p + 3, seps), seps)

\* \b\d{3}[-.]?\d{3}[-.]?\d{4}\b with the digits ending before position e
PlainEnd(s, i, e) == IF WordBoundary(s, i) /\ e # 0 /\ WordBoundary(s, e) THEN e ELSE 0

\* \(\d{3}\)\s*\d{3}[-.]?\d{4} with the second group of digits at area
ParenEnd(s, i, area, local) ==
    IF /\ CharAt(s, i) = "(" /\ AllIn(s, i + 1, i + 3, DigitSet)
       /\ CharAt(s, i + 4) = ")"
       /\ AllIn(s, area, area + 2, DigitSet)
       /\ AllIn(s, local, local + 3, DigitSet)
    THEN local + 4
    ELSE 0

ParenAfterArea(s, i, area) == ParenEnd(s, i, area, SkipOne(s, area + 3, {"-", "."}))

\* the three phone patterns anchored at position i: the position after the
\* match, 0 when there is no match
PhoneEnd(s, i, pattern) ==
    IF pattern = 1 THEN PlainEnd(s, i, DigitsEnd(s, i, {"-", "."}))
    ELSE IF pattern = 2 THEN ParenAfterArea(s, i, RunEnd(s, i + 5, SpaceSet))
    ELSE IF Slice(s, i, i + 1) = "+1"
    THEN DigitsEnd(s, SkipOne(s, i + 2, {"-", "."} \cup SpaceSet),
                   {"-", "."} \cup SpaceSet)
    ELSE 0

RECURSIVE FindAll(_, _, _)
RECURSIVE FindFrom(_, _, _, _)
\* the match at position i when PhoneEnd gave e, and the matches after it
FindFrom(s, i, pattern, e) ==
    IF e # 0
    THEN <<SubSeq(s, i, e - 1)>> \o FindAll(s, e, pattern)
    ELSE FindAll(s, i + 1, pattern)

\* re.findall(pattern, s) from position i on
FindAll(s, i, pattern) ==
    IF i > Len(s) THEN <<>> ELSE FindFrom(s, i, pattern, PhoneEnd(s, i, pattern))

\* lines 353-360: the matches of the first pattern that has any
FirstNonEmpty(first, second, third) ==
    IF first # <<>> THEN first ELSE IF second # <<>> THEN second ELSE third

extract_phone_numbers(text) ==
    IF ~Truthy(text) THEN <<>>
    ELSE FirstNonEmpty(FindAll(SearchText(text), 1, 1), FindAll(SearchText(text), 1, 2),
                       FindAll(SearchText(text), 1, 3))

RECURSIVE KeepChars(_, _)
\* re.sub(r'[^\d+]', '', phone_number)
KeepChars(s, class) ==
    IF s = "" THEN ""
    ELSE (IF Head(s) \in class THEN Head(s) ELSE "") \o KeepChars(Tail(s), class)

\* excerpt of the geocoding table of phonenumbers, by area code
AREA_CODES == <<
    [code |-> "415", description |-> "California"],
    [code |-> "206", description |-> "Washington State"],
    [code |-> "512", description |-> "Texas"] >>

\* phonenumbers.parse(phone_clean, None) raises NumberParseException: fewer
\* than three digits, a "+" after the first character, or a country calling
\* code that starts with 0
ParseRaises(phone_clean) ==
    \/ Len(KeepChars(phone_clean, DigitSet)) < 3
    \/ \E k \in 2..Len(phone_clean) : CharAt(phone_clean, k) = "+"
    \/ CharAt(KeepChars(phone_clean, DigitSet), 1) = "0"

\* geocoder.description_for_number(phonenumbers.parse(phone_clean)): Raised
\* for a number that does not parse, "" for one that has no description
GeocoderDescription(phone_clean) ==
    IF ParseRaises(phone_clean) THEN Raised
    ELSE IF /\ Len(phone_clean) = 12 /\ Slice(phone_clean, 1, 2) = "+1"
       /\ AllIn(phone_clean, 3, 12, DigitSet)
       /\ \E k \in DOMAIN AREA_CODES : Slice(phone_clean, 3, 5) = AREA_CODES[k].code
    THEN AREA_CODES[CHOOSE k \in DOMAIN AREA_CODES :
                       Slice(phone_clean, 3, 5) = AREA_CODES[k].code].description
    ELSE ""

\* lines 382-383
AssumeUS(phone_clean) ==
    IF CharAt(phone_clean, 1) = "+" THEN phone_clean ELSE "+1" \o phone_clean

\* lines 392-398 without the try: the exception is left to the caller
DescriptionUncaught(location) == IF location # "" THEN location ELSE None

\* lines 378-398: the description when there is one, None when there is none
\* or when the try block raised
DescriptionOrNone(location) ==
    IF location # "" /\ location # Raised THEN location ELSE None

get_location_from_phone_number(phone_number) ==
    IF ~Truthy(phone_number) THEN None
    ELSE DescriptionOrNone(
             GeocoderDescription(AssumeUS(KeepChars(phone_number, DigitSet \cup {"+"}))))

(***************************************************************************)
(* get_candidate_location_multi_source. A candidate is the record of the   *)
(* fields the function reads: location, locations (a list, empty when      *)
(* absent), contact_location, phones (the phone values) and contact_phone  *)
(* (None when absent).                                                     *)
(***************************************************************************)
\* lines 463-476: the structured field, before it is stripped
StructuredLocation(candidate) ==
    IF Truthy(candidate.location) THEN candidate.location
    ELSE IF candidate.locations # <<>> /\ Truthy(candidate.locations[1])
    THEN candidate.locations[1]
    ELSE candidate.contact_location

\* lines 493-514: the phone numbers in the order they are tried
PhoneNumbers(candidate, resume_text) ==
    candidate.phones
        \o (IF candidate.contact_phone # None THEN <<candidate.contact_phone>> ELSE <<>>)
        \o (IF Truthy(resume_text) THEN extract_phone_numbers(resume_text) ELSE <<>>)

RECURSIVE FirstPhoneLocation(_)
RECURSIVE PhoneLocationOrNext(_, _)
PhoneLocationOrNext(location, phone_numbers) ==
    IF Truthy(location) THEN location ELSE FirstPhoneLocation(Tail(phone_numbers))

\* lines 517-522
FirstPhoneLocation(phone_numbers) ==
    IF phone_numbers = <<>> THEN None
    ELSE PhoneLocationOrNext(
             IF Truthy(Head(phone_numbers)) /\ Strip(Head(phone_numbers)) # ""
             THEN get_location_from_phone_number(Strip(Head(phone_numbers)))
             ELSE None,
             phone_numbers)

\* the sources tried with the resume before the structured fields
FirstSourceResumeFirst(candidate_location, resume_location, phone_numbers) ==
    IF Truthy(resume_location)
    THEN resume_location
    ELSE IF Truthy(candidate_location) /\ Strip(candidate_location) # ""
    THEN Strip(candidate_location)
    ELSE FirstPhoneLocation(phone_numbers)

\* lines 478-522: the first source that gives a location
FirstSource(candidate_location, resume_location, phone_numbers) ==
    IF Truthy(candidate_location) /\ Strip(candidate_location) # ""
    THEN Strip(candidate_location)
    ELSE IF Truthy(resume_location)
    THEN resume_location
    ELSE FirstPhoneLocation(phone_numbers)

get_candidate_location_multi_source(candidate, resume_text) ==
    FirstSource(StructuredLocation(candidate),
                IF Truthy(resume_text) THEN extract_location_from_resume(resume_text)
                ELSE None,
                PhoneNumbers(candidate, resume_text))

\* the detector on the candidates of the model, computed once
LocationTable ==
    [p \in UNION {{<<CandidatePool[k], ResumePool[k]>>, <<CandidatePool[k], None>>} :
                     k \in DOMAIN CandidatePool} |->
        get_candidate_location_multi_source(p[1], p[2])]

\* get_candidate_location_multi_source(candidate, resume_text), read from the
\* table
DetectLocation(candidate, resume_text) == LocationTable[<<candidate, resume_text>>]

(***************************************************************************)
(* The location filters. A run of a filter is the record of the list it    *)
(* returns (filtered), the ids it ran the detector for (detected) and the  *)
(* number of calls of locations_match it made (matches).                   *)
(***************************************************************************)
NoRun == [filtered |-> <<>>, detected |-> <<>>, matches |-> 0]

\* lines 541 and 584: not location_filter or not location_filter.strip()
IsBlank(location_filter) == ~Truthy(location_filter) \/ Strip(location_filter) = ""

\* lines 544-547 and 587-590
SplitFilter(location_filter) ==
    StripAndDropEmpty(Split(Strip(location_filter), {"\n"}))

\* the filter terms and the locations of the model
KnownTerms ==
    UNION {Range(SplitFilter(FilterSamples[k].location_filter))
               \cup Range(FilterSamples[k].country_filters)
               \cup Range(FilterSamples[k].location_filters) : k \in DOMAIN FilterSamples}
        \cup UNION {Range(REGION_MAPPINGS[k].cities) : k \in DOMAIN REGION_MAPPINGS}

KnownLocations == Range(LocationTable) \ {None}

\* locations_match on the terms and locations of the model, computed once
MatchTable ==
    [t \in KnownTerms |->
        [l \in KnownLocations |-> [e \in BOOLEAN |-> locations_match(t, l, e)]]]

\* locations_match(location1, location2, _expanded), read from the table
LocationsMatch(location1, location2, expanded) ==
    MatchTable[location1][location2][expanded]

RECURSIVE AppendOnFirstMatchNoBreak(_, _, _, _)
AppendOnFirstMatchNoBreak(run, element, filters, candidate_location) ==
    IF filters = <<>> THEN run
    ELSE LET counted == [run EXCEPT !.matches = @ + 1]
             f == Head(filters)
         IN  IF LocationsMatch(f[1], candidate_location, f[2])
             THEN AppendOnFirstMatchNoBreak([counted EXCEPT !.filtered = Append(@, element)],
                                            element, Tail(filters), candidate_location)
             ELSE AppendOnFirstMatchNoBreak(counted, element, Tail(filters),
                                            candidate_location)

\* only the first term is tried
AppendOnFirstTermOnly(run, element, filters, candidate_location) ==
    IF filters = <<>> THEN run
    ELSE IF LocationsMatch(Head(filters)[1], candidate_location, Head(filters)[2])
    THEN [run EXCEPT !.matches = @ + 1, !.filtered = Append(@, element)]
    ELSE [run EXCEPT !.matches = @ + 1]

RECURSIVE AppendOnFirstMatch(_, _, _, _)
\* lines 563-567 and 617-622: the loop over the filter terms, left at the
\* first term that matches; filters is a list of <<term, is_expanded>>
AppendOnFirstMatch(run, element, filters, candidate_location) ==
    IF filters = <<>> THEN run
    ELSE LET counted == [run EXCEPT !.matches = @ + 1]
             f == Head(filters)
         IN  IF LocationsMatch(f[1], candidate_location, f[2])
             THEN [counted EXCEPT !.filtered = Append(@, element)]
             ELSE AppendOnFirstMatch(counted, element, Tail(filters), candidate_location)

\* resume_texts[candidate["id"]] when the dict has the id, None otherwise
ResumeTextFor(candidate, resume_texts) ==
    IF candidate.id \in DOMAIN resume_texts THEN resume_texts[candidate.id] ELSE None

\* lines 561-568 and 615-623: a candidate without a location is left out,
\* any other is tried against the filter terms
KeepIfMatch(run, element, filters, candidate_location) ==
    IF Truthy(candidate_location)
    THEN AppendOnFirstMatch(run, element, filters, candidate_location)
    ELSE run

RECURSIVE FilterLoop(_, _, _, _)
\* lines 551-567: the loop over the candidates
FilterLoop(run, candidates, location_filters, resume_texts) ==
    IF candidates = <<>> THEN run
    ELSE FilterLoop(
             KeepIfMatch([run EXCEPT !.detected = Append(@, Head(candidates).id)],
                         Head(candidates), location_filters,
                         DetectLocation(Head(candidates),
                                        ResumeTextFor(Head(candidates), resume_texts))),
             Tail(candidates), location_filters, resume_texts)

\* every term as it is, to be expanded by locations_match
Unexpanded(location_filters) ==
    [k \in DOMAIN location_filters |-> <<location_filters[k], FALSE>>]

FilterByLocationNoEarlyReturn(candidates, location_filter, resume_texts) ==
    FilterLoop(NoRun, candidates, Unexpanded(SplitFilter(location_filter)), resume_texts)

filter_candidates_by_location(candidates, location_filter, resume_texts) ==
    IF IsBlank(location_filter)
    THEN [NoRun EXCEPT !.filtered = candidates]
    ELSE FilterLoop(NoRun, candidates, Unexpanded(SplitFilter(location_filter)),
                    resume_texts)

RECURSIVE ExpandFilters(_)
\* lines 593-601: region terms replaced by their cities, marked expanded
ExpandFilters(location_filters) ==
    IF location_filters = <<>> THEN <<>>
    ELSE LET filter_loc == Head(location_filters)
             expanded == expand_region(filter_loc)
         IN  (IF Len(expanded) > 1
              THEN [k \in DOMAIN expanded |-> <<expanded[k], TRUE>>]
              ELSE <<<<filter_loc, FALSE>>>>)
                 \o ExpandFilters(Tail(location_filters))

RECURSIVE FilterWithResumesLoop(_, _, _)
\* lines 606-622: the loop over the items
FilterWithResumesLoop(run, item_list, expanded_filters) ==
    IF item_list = <<>> THEN run
    ELSE FilterWithResumesLoop(
             KeepIfMatch([run EXCEPT !.detected = Append(@, Head(item_list).candidate.id)],
                         Head(item_list), expanded_filters,
                         DetectLocation(Head(item_list).candidate,
                                        Head(item_list).resume_text)),
             Tail(item_list), expanded_filters)

filter_candidates_with_resumes_by_location(item_list, location_filter) ==
    IF IsBlank(location_filter)
    THEN [NoRun EXCEPT !.filtered = item_list]
    ELSE FilterWithResumesLoop(NoRun, item_list,
                               ExpandFilters(SplitFilter(location_filter)))

(***************************************************************************)
(* FilterSpec - one use of the location filter: either a direct call of    *)
(* filter_candidates_by_location or of                                     *)
(* filter_candidates_with_resumes_by_location, followed by a call of the   *)
(* same function on the list it returned, or one run of the "Analyze       *)
(* Candidates" handler of app.py from the fetched candidate list on.       *)
(***************************************************************************)
\* lists of at most n different candidates of the pool
CandidateLists(n) ==
    LET picks == UNION {[1..m -> DOMAIN CandidatePool] : m \in 0..n}
    IN  {[k \in DOMAIN p |-> CandidatePool[p[k]]] :
            p \in {q \in picks : \A a, b \in DOMAIN q : a # b => q[a] # q[b]}}

RECURSIVE Join(_, _)
\* sep.join(list)
Join(list, sep) ==
    IF list = <<>> THEN ""
    ELSE IF Len(list) = 1 THEN list[1]
    ELSE list[1] \o sep \o Join(Tail(list), sep)

\* the resume_texts dict of a direct call: the text of every candidate that
\* has one
ResumeTexts(cands) ==
    LET ids == {cands[k].id : k \in DOMAIN cands}
    IN  [id \in {i \in ids : Truthy(get_resume_text_for_candidate(i))} |->
            get_resume_text_for_candidate(id)]

\* the candidates_with_resumes list of a direct call
ItemsOf(cands) ==
    [k \in DOMAIN cands |->
        [candidate |-> cands[k],
         resume_text |-> get_resume_text_for_candidate(cands[k].id)]]

FilterInit ==
    /\ BatchIdle
    /\ CallIdle
    /\ FetchIdle
    /\ fpc = "start"
    /\ all_candidates \in CandidateLists(MaxCands)
    /\ \E k \in DOMAIN FilterSamples :
          /\ ss_country_filters = FilterSamples[k].country_filters
          /\ ss_location_filters = FilterSamples[k].location_filters
          /\ filter_text = FilterSamples[k].location_filter
    /\ once = [fn |-> "", run |-> NoRun]
    /\ twice = [fn |-> "", run |-> NoRun]
    /\ candidates_matched_lever = <<>>
    /\ candidates_no_location = <<>>
    /\ candidates_to_fetch = <<>>
    /\ fetched = <<>>
    /\ candidates_with_resumes = <<>>
    /\ deep = NoRun

\* the function fn applied to list
RunFilter(fn, list) ==
    IF fn = "filter_candidates_with_resumes_by_location"
    THEN filter_candidates_with_resumes_by_location(list, filter_text)
    ELSE filter_candidates_by_location(list, filter_text,
             IF fn = "filter_candidates_by_location"
             THEN ResumeTexts(all_candidates)
             ELSE <<>>)

FilterFunctions ==
    {"filter_candidates_by_location", "filter_candidates_by_location_without_resumes",
     "filter_candidates_with_resumes_by_location"}

InputOf(fn) ==
    IF fn = "filter_candidates_with_resumes_by_location"
    THEN ItemsOf(all_candidates)
    ELSE all_candidates

HandlerVars == <<ss_country_filters, ss_location_filters, candidates_matched_lever,
                 candidates_no_location, candidates_to_fetch, fetched,
                 candidates_with_resumes, deep>>

\* a direct call of one of the filter functions on all_candidates
FilterOnce ==
    /\ fpc = "start"
    /\ \E fn \in FilterFunctions : once' = [fn |-> fn, run |-> RunFilter(fn, InputOf(fn))]
    /\ fpc' = "once"
    /\ UNCHANGED <<all_candidates, filter_text, twice, HandlerVars, bvars, lvars, avars>>

\* the same function called on the list the first call returned
FilterAgain ==
    /\ fpc = "once"
    /\ twice' = [fn |-> once.fn, run |-> RunFilter(once.fn, once.run.filtered)]
    /\ fpc' = "twice"
    /\ UNCHANGED <<all_candidates, filter_text, once, HandlerVars, bvars, lvars, avars>>

(***************************************************************************)
(* The "Analyze Candidates" handler of app.py, from line 544 on.           *)
(* filter_candidates_by_location_fast is imported by app.py from           *)
(* location_utils, which does not define it; it is modelled on the         *)
(* description of the fast phase in section 4.5 of the specification.      *)
(***************************************************************************)
\* the candidate goes to the list to check when it has no structured
\* location, to the matches when a term matches it, and is left out otherwise
FastSorted(acc, candidate, structured, terms) ==
    IF ~Truthy(structured) \/ Strip(structured) = ""
    THEN [acc EXCEPT !.no_location = Append(@, candidate)]
    ELSE IF \E k \in DOMAIN terms : LocationsMatch(terms[k], Strip(structured), FALSE)
    THEN [acc EXCEPT !.matched = Append(@, candidate)]
    ELSE acc

RECURSIVE FastLoop(_, _, _)
FastLoop(acc, candidates, terms) ==
    IF candidates = <<>> THEN acc
    ELSE FastLoop(FastSorted(acc, Head(candidates),
                             StructuredLocation(Head(candidates)), terms),
                  Tail(candidates), terms)

filter_candidates_by_location_fast(candidates, location_filter) ==
    FastLoop([matched |-> <<>>, no_location |-> <<>>], candidates,
             SplitFilter(location_filter))

\* lines 565 and 618: a country or a location filter is set
HasFilters == ss_country_filters # <<>> \/ ss_location_filters # <<>>

\* lines 567-572 and 619-624
combined_filter == Join(ss_country_filters \o ss_location_filters, "\n")

RECURSIVE SelectItems(_, _, _)
\* [item for item in item_list if (item["candidate"].get("id") in ids) == keep]
SelectItems(item_list, ids, keep) ==
    IF item_list = <<>> THEN <<>>
    ELSE (IF (Head(item_list).candidate.id \in ids) = keep
          THEN <<Head(item_list)>>
          ELSE <<>>) \o SelectItems(Tail(item_list), ids, keep)

\* {c.get("id") for c in candidates_no_location}
IdsOf(no_location) == {no_location[k].id : k \in DOMAIN no_location}

\* line 638 and the run of the filter it used
Combined(candidates_with_lever, run) ==
    [kept |-> candidates_with_lever \o run.filtered, deep |-> run]

\* the deep check without the split by id: every fetched item is kept and
\* the deep matches are added
DeepCheckNoSplit(item_list, no_location, location_filter) ==
    Combined(item_list,
             filter_candidates_with_resumes_by_location(
                 SelectItems(item_list, IdsOf(no_location), TRUE), location_filter))

\* the deep check that keeps the deep matches only
DeepCheckOnly(item_list, no_location, location_filter) ==
    Combined(<<>>,
             filter_candidates_with_resumes_by_location(
                 SelectItems(item_list, IdsOf(no_location), TRUE), location_filter))

\* lines 627-638: the fetched items split by id into those matched on the
\* structured field and those without one, the latter filtered on their
\* resumes, and the two lists put together
DeepCheck(item_list, no_location, location_filter) ==
    Combined(SelectItems(item_list, IdsOf(no_location), FALSE),
             filter_candidates_with_resumes_by_location(
                 SelectItems(item_list, IdsOf(no_location), TRUE), location_filter))

\* the fast filter's lists are kept but every candidate's resume is fetched
PrefilteredFetchAll(fast) ==
    /\ candidates_matched_lever' = fast.matched
    /\ candidates_no_location' = fast.no_location
    /\ candidates_to_fetch' = all_candidates

\* lines 576-581: the two lists of the fast filter and the list to fetch
Prefiltered(fast) ==
    /\ candidates_matched_lever' = fast.matched
    /\ candidates_no_location' = fast.no_location
    /\ candidates_to_fetch' = fast.matched \o fast.no_location

\* lines 638-642: the list kept goes to the analysis when it is not empty
Checked(checked) ==
    /\ candidates_with_resumes' = checked.kept
    /\ deep' = checked.deep
    /\ fpc' = IF checked.kept # <<>> THEN "analyzing" ELSE "no_match"

\* lines 544-590: the button is pressed with the candidates fetched; with a
\* filter set the fast filter decides whose resume is fetched
AnalyzeClicked ==
    /\ fpc = "start"
    /\ IF all_candidates = <<>>
       THEN /\ fpc' = "no_candidates"
            /\ UNCHANGED <<candidates_matched_lever, candidates_no_location,
                           candidates_to_fetch>>
       ELSE /\ fpc' = "fetching"
            /\ IF HasFilters
               THEN Prefiltered(filter_candidates_by_location_fast(all_candidates,
                                                                   combined_filter))
               ELSE /\ candidates_to_fetch' = all_candidates
                    /\ UNCHANGED <<candidates_matched_lever, candidates_no_location>>
    /\ UNCHANGED <<all_candidates, ss_country_filters, ss_location_filters, filter_text,
                   once, twice, fetched, candidates_with_resumes, deep, bvars, lvars, avars>>

\* the loop fetches the resume of every candidate of the posting
FetchResumeOfAll ==
    /\ fpc = "fetching"
    /\ Len(fetched) < Len(candidates_to_fetch)
    /\ LET candidate == all_candidates[Len(fetched) + 1]
           resume_text == get_resume_text_for_candidate(candidate.id)
       IN  /\ fetched' = Append(fetched, candidate.id)
           /\ candidates_with_resumes' =
                  IF Truthy(resume_text)
                  THEN Append(candidates_with_resumes,
                              [candidate |-> candidate, resume_text |-> resume_text])
                  ELSE candidates_with_resumes
    /\ UNCHANGED <<fpc, all_candidates, ss_country_filters, ss_location_filters,
                   filter_text, once, twice, candidates_matched_lever,
                   candidates_no_location, candidates_to_fetch, deep, bvars, lvars, avars>>

\* lines 598-609: one iteration of the loop that fetches the resumes
FetchResume ==
    /\ fpc = "fetching"
    /\ Len(fetched) < Len(candidates_to_fetch)
    /\ LET candidate == candidates_to_fetch[Len(fetched) + 1]
           resume_text == get_resume_text_for_candidate(candidate.id)
       IN  /\ fetched' = Append(fetched, candidate.id)
           /\ candidates_with_resumes' =
                  IF Truthy(resume_text)
                  THEN Append(candidates_with_resumes,
                              [candidate |-> candidate, resume_text |-> resume_text])
                  ELSE candidates_with_resumes
    /\ UNCHANGED <<fpc, all_candidates, ss_country_filters, ss_location_filters,
                   filter_text, once, twice, candidates_matched_lever,
                   candidates_no_location, candidates_to_fetch, deep, bvars, lvars, avars>>

\* lines 614-642: after the loop, the candidates without a structured
\* location are filtered on their resumes and the list goes to the analysis
FilterFetched ==
    /\ fpc = "fetching"
    /\ Len(fetched) = Len(candidates_to_fetch)
    /\ IF candidates_with_resumes = <<>>
       THEN /\ fpc' = "no_resumes"
            /\ UNCHANGED <<candidates_with_resumes, deep>>
       ELSE Checked(IF candidates_no_location # <<>> /\ HasFilters
                    THEN DeepCheck(candidates_with_resumes, candidates_no_location,
                                   combined_filter)
                    ELSE [kept |-> candidates_with_resumes, deep |-> NoRun])
    /\ UNCHANGED <<all_candidates, ss_country_filters, ss_location_filters, filter_text,
                   once, twice, candidates_matched_lever, candidates_no_location,
                   candidates_to_fetch, fetched, bvars, lvars, avars>>

FilterNext ==
    \/ FilterOnce
    \/ FilterAgain
    \/ AnalyzeClicked
    \/ FetchResume
    \/ FilterFetched

FilterSpec == FilterInit /\ [][FilterNext]_vars

(***************************************************************************)
(* Direct calls of the location functions (CallSpec): one call of          *)
(* get_candidate_location_multi_source, normalize_location or              *)
(* locations_match, with its arguments in lcall and its result in lret.    *)
(***************************************************************************)
\* the candidates of test_multi_source_location.py (tests 1, 3 and 7) next to
\* those of the pool, and candidates whose phone numbers do not parse
DetectorCandidates ==
    Range(CandidatePool) \cup {
        [NoCandidate EXCEPT !.id = "123", !.location = "San Francisco, CA"],
        [NoCandidate EXCEPT !.id = "125", !.phones = <<"415-555-1234">>],
        [NoCandidate EXCEPT !.id = "126", !.location = "Miami, FL",
                            !.phones = <<"415-555-1234">>],
        [NoCandidate EXCEPT !.id = "127", !.phones = <<"abc", "206-555-0100">>],
        [NoCandidate EXCEPT !.id = "128", !.phones = <<"abc">>,
                            !.contact_phone = "+1 (0)"],
        [NoCandidate EXCEPT !.id = "129", !.locations = <<" ">>,
                            !.contact_location = "Austin, TX"] }

DetectorResumes ==
    Range(ResumePool) \cup {"Seattle, WA\nSoftware Engineer", "Call 415-555-1234", ""}

DetectorCalls ==
    {[fn |-> "get_candidate_location_multi_source", args |-> <<c, r>>] :
        c \in DetectorCandidates, r \in DetectorResumes}

\* the locations "<member city>, <state>" of the member cities of
\* REGION_MAPPINGS, region by region in the order of the cities
MemberLocations == <<
    <<"San Francisco, CA", "South San Francisco, CA", "Oakland, CA", "Newark, CA",
      "San Jose, CA", "Los Altos, CA">>,
    <<"San Jose, CA", "Palo Alto, CA", "Los Altos, CA">>,
    <<"Seattle, WA", "Bellevue, WA", "Redmond, WA">>,
    <<"New York, NY", "Brooklyn, NY", "Newark, NJ", "Jersey City, NJ">> >>

\* the filter terms and the candidate locations of test_location_filter.py
\* and test_region_matching.py, and terms and locations in their manner
MatchTerms ==
    {"California", "CA", "Texas", "USA", "US", "United States", "Canada",
     "Bay Area", "San Francisco Bay Area", "Bay Area, CA", "NYC Metro",
     "Silicon Valley", "Bay Area / NYC Metro", "Paris, Texas", "Toronto, Canada",
     "san francisco, ca", "San Francisco", "", None}

MatchLocations ==
    UNION {Range(MemberLocations[k]) : k \in DOMAIN MemberLocations}
        \cup {"Los Angeles, CA", "Philadelphia, PA", "Boston, MA", "California",
              "CA", "Texas", "United States", "USA", "Canada", "Paris, Canada",
              "Toronto, USA", "Los Angeles", "", None}

\* the locations normalize_location is called with, and the call of
\* cc.convert that raises during the call ("no" for none)
NormalizeCalls ==
    {[fn |-> "normalize_location", args |-> <<l, r>>] :
        l \in MatchTerms \cup MatchLocations
                 \cup {"   ", " Austin / Texas ", "CA, San Francisco", "Canada, CA",
                       "CA, Canada", "Vancouver - Canada", "Oakland; Berkeley, CA",
                       "New, York", "Texas, California", "Canada, USA",
                       "San Jose, Canada, Toronto"},
        r \in {"no", "name_short", "ISO3"}}

MatchCalls ==
    {[fn |-> "locations_match", args |-> <<t, l, e>>] :
        t \in MatchTerms, l \in MatchLocations, e \in BOOLEAN}

CallInit ==
    /\ BatchIdle /\ FilterIdle /\ FetchIdle
    /\ lpc = "start"
    /\ lret = ""
    /\ \/ lcall \in DetectorCalls
       \/ lcall \in NormalizeCalls
       \/ lcall \in MatchCalls

\* location = get_candidate_location_multi_source(candidate, resume_text)
Detect ==
    /\ lpc = "start"
    /\ lcall.fn = "get_candidate_location_multi_source"
    /\ lret' = get_candidate_location_multi_source(lcall.args[1], lcall.args[2])
    /\ lpc' = "returned"
    /\ UNCHANGED <<lcall, bvars, fvars, avars>>

\* result = normalize_location(location)
Normalize ==
    /\ lpc = "start"
    /\ lcall.fn = "normalize_location"
    /\ lret' = NormalizeWhen(lcall.args[1], lcall.args[2])
    /\ lpc' = "returned"
    /\ UNCHANGED <<lcall, bvars, fvars, avars>>

\* result = locations_match(location1, location2, _expanded)
Match ==
    /\ lpc = "start"
    /\ lcall.fn = "locations_match"
    /\ lret' = locations_match(lcall.args[1], lcall.args[2], lcall.args[3])
    /\ lpc' = "returned"
    /\ UNCHANGED <<lcall, bvars, fvars, avars>>

CallNext == Detect \/ Normalize \/ Match

CallSpec == CallInit /\ [][CallNext]_vars

(***************************************************************************)
(* fetch_candidates_for_posting of lever_client.py (FetchSpec). A call     *)
(* binds its arguments, then asks the API for one page per iteration of    *)
(* the loop. api_pages are the responses the API is going to give,         *)
(* api_requests the params of the requests made so far.                    *)
(***************************************************************************)
MaxPages == 2

PageLimit == 100

StatusOK == 200

\* the arguments of the calls: the one of the signature, and the two that
\* app.py (line 537) and test_api_params.py (lines 39, 70) pass
FetchArgs == {<<"test_posting_id">>, <<"test_posting_id", FALSE>>,
              <<"test_posting_id", TRUE>>}

\* the "data" of a response, after test_api_params.py
PageData == {
    <<>>,
    <<[id |-> "1", archived |-> FALSE]>>,
    <<[id |-> "1", archived |-> FALSE], [id |-> "2", archived |-> TRUE]>>,
    <<[id |-> "3", archived |-> TRUE]>> }

\* the responses of the API to the requests of one call: every page but the
\* last one has hasNext and the offset of the next page
ApiPages ==
    {[k \in DOMAIN p |->
         [status_code |-> p[k][1], data |-> p[k][2], hasNext |-> k < Len(p),
          next |-> IF k < Len(p) THEN "offset" \o ToString(k + 1) ELSE None]] :
        p \in UNION {[1..n -> {StatusOK, 500} \X PageData] : n \in 1..MaxPages}}

FetchInit ==
    /\ BatchIdle /\ FilterIdle /\ CallIdle
    /\ apc = "call"
    /\ fetch_args \in FetchArgs
    /\ api_pages \in ApiPages
    /\ api_requests = <<>>
    /\ fetch_offset = None
    /\ fetch_candidates = <<>>
    /\ fetch_result = <<>>

\* line 50: def fetch_candidates_for_posting(posting_id: str); a call with
\* any other number of arguments raises TypeError before the body runs
CallFetch ==
    /\ apc = "call"
    /\ apc' = IF Len(fetch_args) = 1 THEN "loop" ELSE "TypeError"
    /\ UNCHANGED <<fetch_args, api_pages, api_requests, fetch_offset,
                   fetch_candidates, fetch_result, bvars, fvars, lvars>>

\* lines 56-61
Params(posting_id, offset) ==
    [posting_id |-> posting_id, limit |-> PageLimit,
     offset |-> IF Truthy(offset) THEN offset ELSE None, expand |-> None]

\* lines 74-76
NotArchived(data) == SelectSeq(data, LAMBDA candidate : ~candidate.archived)

\* lines 55-82: one iteration of the loop
FetchPage ==
    /\ apc = "loop"
    /\ api_requests' = Append(api_requests, Params(fetch_args[1], fetch_offset))
    /\ api_pages' = Tail(api_pages)
    /\ IF Head(api_pages).status_code # StatusOK
       THEN /\ apc' = "Exception"
            /\ UNCHANGED <<fetch_offset, fetch_candidates, fetch_result>>
       ELSE /\ fetch_candidates' = fetch_candidates \o NotArchived(Head(api_pages).data)
            /\ IF ~Head(api_pages).hasNext
               THEN /\ apc' = "returned"
                    /\ fetch_result' = fetch_candidates'
                    /\ UNCHANGED fetch_offset
               ELSE /\ apc' = "loop"
                    /\ fetch_offset' = Head(api_pages).next
                    /\ UNCHANGED fetch_result
    /\ UNCHANGED <<fetch_args, bvars, fvars, lvars>>

FetchNext == CallFetch \/ FetchPage

FetchSpec == FetchInit /\ [][FetchNext]_vars

(***************************************************************************)
(* Claims about analyze_candidates_batch (BatchSpec, RequestSpec and       *)
(* FairRequestSpec).                                                       *)
(***************************************************************************)
Returned == bpc = "returned"

ScoreAt(list, k) == list[k].analysis.overall_score

\* the requests whose scoring failed for good: the bare except of
\* analyze_single_resume was reached, or process_candidate raised
FailedForGood(i) ==
    /\ futures[i].state = "finished"
    /\ futures[i].raised \/ futures[i].analysis.error

\* C1: the returned list has exactly one entry per submitted item, N in all,
\* also when scoring calls fail or a worker raises
C1_OneResultPerItem ==
    Returned =>
        /\ Len(ranked) = Len(items)
        /\ \A i \in DOMAIN items :
              Cardinality({k \in DOMAIN ranked : ranked[k].candidate = items[i]}) = 1

C1_Witness ==
    /\ Returned
    /\ Len(items) >= 3
    /\ \E i, j \in DOMAIN futures :
          /\ futures[i].raised
          /\ futures[j].analysis.error
    /\ \E k \in DOMAIN futures : ~FailedForGood(k)

\* C2: the returned list is in descending order of overall_score
C2_SortedDescending ==
    Returned =>
        \A k \in 1..(Len(ranked) - 1) : ScoreAt(ranked, k) >= ScoreAt(ranked, k + 1)

C2_Witness ==
    /\ Returned
    /\ \E k \in 1..(Len(results) - 1) : ScoreAt(results, k) < ScoreAt(results, k + 1)
    /\ \E k \in 1..(Len(ranked) - 1) : ScoreAt(ranked, k) > ScoreAt(ranked, k + 1)

\* C3: results with equal overall_score appear in the returned list in their
\* submission order (items[i] = i is the submission index)
C3_TiesInSubmissionOrder ==
    Returned =>
        \A k, l \in DOMAIN ranked :
            (k < l /\ ScoreAt(ranked, k) = ScoreAt(ranked, l))
                => ranked[k].candidate < ranked[l].candidate

\* C4: every request that failed for good has an entry with overall_score 0,
\* error true and a failure note
C4_FailedIsFlagged ==
    \A k \in DOMAIN results :
        FailedForGood(results[k].analysis.of) =>
            /\ results[k].analysis.overall_score = 0
            /\ results[k].analysis.error = TRUE
            /\ results[k].analysis.summary # ""

\* C5: progress_callback is called once after each completion, with first
\* argument 1, 2, ..., N and second argument N; never for an empty batch
C5_CallbackPerCompletion ==
    /\ callbacks = [k \in 1..Len(results) |-> <<k, Len(items)>>]
    /\ Returned => Len(callbacks) = Len(items)
    /\ Len(items) = 0 => callbacks = <<>>

C5_Witness ==
    /\ Returned
    /\ Len(callbacks) >= 3
    /\ \E i \in DOMAIN futures : futures[i].raised
    /\ \E i \in DOMAIN futures : futures[i].analysis.error

\* the request of item i: Pending while its future is queued, InFlight while
\* it runs, Success or Failed once it finished
Pending(i) == futures[i].state = "queued"

InFlight(i) == futures[i].state = "running"

Resolved(i) == futures[i].state = "finished"

\* the number of the attempt of call_openai the request is in
AttemptNo(i) == futures[i].attempts + 1

\* C21: each request follows Pending -> InFlight -> Success | InFlight
\* (retry) | Failed. The scoring call is attempted again only after a
\* failure that signals a rate limit, at most 3 attempts are made per
\* request, any other failure moves the request to Failed on that attempt
\* without a retry, and a request that reached Success or Failed is never
\* called again
C21_RequestStateMachine ==
    [][\A i \in DOMAIN futures :
          /\ AttemptNo(i) <= MaxAttempts
          /\ futures'[i] # futures[i]
                => /\ Pending(i) => futures'[i].state = "running"
                   /\ ~Resolved(i)
                   /\ InFlight(i)
                        => /\ futures'[i].state \in {"running", "finished"}
                           /\ futures'[i].state = "running"
                                => /\ futures'[i].attempts
                                        = futures[i].attempts + 1
                                   /\ CallFailsWith(i, "rate_limit")
                                   /\ ~CallFailsWith(i, "other")
                           /\ CallFailsWith(i, "other")
                                => /\ futures'[i].state = "finished"
                                   /\ futures'[i].analysis
                                        = DegradedAnalysis(i)]_vars

\* a request in its third attempt after two rate limits, next to a request
\* that failed
C21_Witness ==
    /\ \E i \in DOMAIN futures : InFlight(i) /\ AttemptNo(i) = MaxAttempts
    /\ \E i \in DOMAIN futures : Resolved(i) /\ futures[i].analysis.error

C22_InFlightWithinPool == Cardinality(Running) <= PoolSize

\* the pool is full again: a request beyond the first three runs on the
\* worker that a resolved request freed
C22_Witness ==
    /\ Cardinality(Running) = PoolSize
    /\ \E i \in Running : i > PoolSize
    /\ \E i \in DOMAIN futures : Resolved(i)

IsPrefix(s, t) == Len(s) <= Len(t) /\ SubSeq(t, 1, Len(s)) = s

\* C27: the result list and the completed count are the only state shared
\* between requests and are updated by the one thread that iterates the
\* completions, never by a worker: under every interleaving no result is
\* lost or overwritten, and at each callback the reported count is the
\* number of results accumulated so far
C27_SharedStateUpdatedByOneThread ==
    [][/\ IsPrefix(results, results') /\ IsPrefix(callbacks, callbacks')
       /\ Len(callbacks') = Len(results')
       /\ \A k \in (Len(callbacks) + 1)..Len(callbacks') : callbacks'[k][1] = k
       /\ results' # results
            => /\ futures' = futures
               /\ bpc' = "collect"
               /\ \A k \in (Len(results) + 1)..Len(results') :
                     /\ Resolved(results'[k].candidate)
                     /\ \A l \in 1..(k - 1) :
                           results'[l].candidate # results'[k].candidate
       /\ futures' # futures => results' = results /\ callbacks' = callbacks
      ]_vars

\* the loop has appended the results of three requests while the fourth is
\* still in flight
C27_Witness ==
    /\ bpc = "collect"
    /\ Len(results) = PoolSize
    /\ Len(callbacks) = PoolSize
    /\ \E i \in DOMAIN futures : InFlight(i)

\* C29: in the list analyze_candidates_batch returns every entry pairs a
\* candidate with the analysis computed from that candidate's own resume
\* text: under every interleaving of the workers, and on the path where a
\* worker raises, no analysis is attached to another candidate and every
\* submitted candidate is in exactly one entry
C29_AnalysisOfOwnCandidate ==
    /\ \A k \in DOMAIN results : results[k].analysis.of = results[k].candidate
    /\ Returned =>
          /\ \A k \in DOMAIN ranked :
                /\ ranked[k].analysis.of = ranked[k].candidate
                /\ ranked[k].analysis =
                       IF futures[ranked[k].candidate].raised
                       THEN FallbackAnalysis(ranked[k].candidate)
                       ELSE futures[ranked[k].candidate].analysis
          /\ \A i \in DOMAIN items : \E k \in DOMAIN ranked :
                /\ ranked[k].candidate = items[i]
                /\ \A l \in DOMAIN ranked : ranked[l].candidate = items[i] => l = k

\* a returned batch whose entries are not in submission order, one of a
\* worker that raised among them
C29_Witness ==
    /\ Returned
    /\ Len(ranked) = MaxBatch
    /\ \E i \in DOMAIN futures : futures[i].raised
    /\ \E k \in DOMAIN results : results[k].candidate # k
    /\ \E k \in DOMAIN ranked : ranked[k].candidate # results[k].candidate

(***************************************************************************)
(* Claims about the location filters and the handler (FilterSpec).         *)
(***************************************************************************)
WithResumes == "filter_candidates_with_resumes_by_location"

\* the candidates of a list of items
CandidatesOf(item_list) == [k \in DOMAIN item_list |-> item_list[k].candidate]

\* the candidates a direct call returned
ReturnedCandidates(call) ==
    IF call.fn = WithResumes THEN CandidatesOf(call.run.filtered) ELSE call.run.filtered

\* no id is twice in the list
DistinctIds(cands) == \A a, b \in DOMAIN cands : a # b => cands[a].id # cands[b].id

DirectCallDone == fpc \in {"once", "twice"}

HandlerDone == fpc \in {"analyzing", "no_match", "no_resumes"}

\* the location a direct call of once.fn resolves for the candidate
ResolvedFor(candidate) ==
    DetectLocation(candidate,
                   IF once.fn = "filter_candidates_by_location_without_resumes"
                   THEN None
                   ELSE get_resume_text_for_candidate(candidate.id))

\* the terms that match the location, as the function fn tries them
MatchingTerms(fn, location) ==
    LET filters == IF fn = WithResumes
                   THEN ExpandFilters(SplitFilter(filter_text))
                   ELSE Unexpanded(SplitFilter(filter_text))
    IN  {k \in DOMAIN filters : LocationsMatch(filters[k][1], location, filters[k][2])}

\* C6: a filter function applied to the list it returned, with the same
\* filter, returns that list again: the same candidates in the same order
C6_FilterIdempotent ==
    fpc = "twice" => twice.run.filtered = once.run.filtered

C6_Witness ==
    /\ fpc = "twice"
    /\ ~IsBlank(filter_text)
    /\ Len(once.run.filtered) >= 2
    /\ Len(once.run.filtered) < Len(all_candidates)
    /\ twice.run.filtered = once.run.filtered
    /\ twice.run.matches > 0

\* C7: a filter returns only candidates of its input and, the ids of the
\* input being distinct, no id twice; the list the handler hands to the
\* analysis holds only fetched candidates, no id twice
C7_NoNewNoDuplicate ==
    /\ DirectCallDone =>
          /\ Range(once.run.filtered) \subseteq Range(InputOf(once.fn))
          /\ DistinctIds(ReturnedCandidates(once))
    /\ Range(candidates_with_resumes) \subseteq Range(ItemsOf(all_candidates))
    /\ DistinctIds(CandidatesOf(candidates_with_resumes))

\* a candidate that several member cities of the expanded regions match is
\* returned, and one that several terms match
C7_Witness ==
    /\ fpc = "once"
    /\ once.fn = WithResumes
    /\ \E k \in DOMAIN all_candidates :
          /\ all_candidates[k] \in Range(ReturnedCandidates(once))
          /\ Truthy(ResolvedFor(all_candidates[k]))
          /\ Cardinality(MatchingTerms(once.fn, ResolvedFor(all_candidates[k]))) >= 2

\* C8: with an empty or whitespace-only filter a filter function returns its
\* input as it is, detects no location and matches nothing; with no filter
\* set the handler fetches the resume of every candidate, filters nothing
\* and hands every candidate that has a resume to the analysis
C8_BlankFilterIsIdentity ==
    /\ (DirectCallDone /\ IsBlank(filter_text)) =>
          once.run = [filtered |-> InputOf(once.fn), detected |-> <<>>, matches |-> 0]
    /\ (~DirectCallDone /\ fpc # "start" /\ ~HasFilters) =>
          /\ candidates_to_fetch = all_candidates
          /\ candidates_matched_lever = <<>>
          /\ candidates_no_location = <<>>
          /\ deep = NoRun
          /\ Range(candidates_with_resumes) \subseteq Range(ItemsOf(all_candidates))
          /\ HandlerDone =>
                \A k \in DOMAIN all_candidates :
                    Truthy(get_resume_text_for_candidate(all_candidates[k].id))
                        => all_candidates[k] \in Range(CandidatesOf(candidates_with_resumes))

C8_Witness ==
    /\ fpc = "once"
    /\ filter_text # ""
    /\ IsBlank(filter_text)
    /\ Len(all_candidates) >= 2
    /\ once.run.filtered = InputOf(once.fn)

\* the terms of the filter the handler builds
HandlerTerms == ss_country_filters \o ss_location_filters

\* Phase A: the structured location of the candidate, None without one
FastLocation(candidate) ==
    IF Truthy(StructuredLocation(candidate)) /\ Strip(StructuredLocation(candidate)) # ""
    THEN Strip(StructuredLocation(candidate))
    ELSE None

\* the candidate has a structured location and a term of the filter matches it
PhaseAMatch(candidate) ==
    /\ Truthy(FastLocation(candidate))
    /\ \E k \in DOMAIN HandlerTerms :
          LocationsMatch(HandlerTerms[k], FastLocation(candidate), FALSE)

\* the candidate has no structured location, and a term of the filter, with
\* its regions expanded, matches the location its resume or phone gives
DeepMatchOn(candidate, location) ==
    /\ ~Truthy(FastLocation(candidate))
    /\ Truthy(location)
    /\ \E k \in DOMAIN ExpandFilters(HandlerTerms) :
          LocationsMatch(ExpandFilters(HandlerTerms)[k][1], location,
                         ExpandFilters(HandlerTerms)[k][2])

PhaseBMatch(candidate) ==
    DeepMatchOn(candidate,
                DetectLocation(candidate, get_resume_text_for_candidate(candidate.id)))

HasResume(candidate) == Truthy(get_resume_text_for_candidate(candidate.id))

PhaseAMatchWithResume(candidate) == HasResume(candidate) /\ PhaseAMatch(candidate)

PhaseBMatchWithResume(candidate) == HasResume(candidate) /\ PhaseBMatch(candidate)

PhaseADone == HasFilters /\ fpc \in {"fetching", "analyzing", "no_match", "no_resumes"}

\* the three classes of Phase A, decided on the structured location only
NeedsDeepCheck(candidate) == ~Truthy(FastLocation(candidate))

PermanentlyExcluded(candidate) ==
    Truthy(FastLocation(candidate)) /\ ~PhaseAMatch(candidate)

ExcludedIds == {c.id : c \in {x \in Range(all_candidates) : PermanentlyExcluded(x)}}

IdList(cands) == [k \in DOMAIN cands |-> cands[k].id]

\* C24: Phase A puts every candidate in exactly one of three classes on its
\* structured location only: matchedFast if it has one and a term matches
\* it, permanently excluded if it has one and no term matches it,
\* needsDeepCheck if it has none; a permanently excluded candidate is never
\* reconsidered in Phase B
C24_PhaseAThreeClasses ==
    PhaseADone =>
        /\ candidates_matched_lever = SelectSeq(all_candidates, PhaseAMatch)
        /\ candidates_no_location = SelectSeq(all_candidates, NeedsDeepCheck)
        /\ \A c \in Range(all_candidates) :
              /\ ~(c \in Range(candidates_matched_lever)
                     /\ c \in Range(candidates_no_location))
              /\ PermanentlyExcluded(c) <=>
                     c \notin Range(candidates_matched_lever)
                                \cup Range(candidates_no_location)
        /\ ExcludedIds \cap Range(IdList(candidates_to_fetch)) = {}
        /\ ExcludedIds \cap Range(IdList(CandidatesOf(candidates_with_resumes))) = {}
        /\ ExcludedIds \cap Range(deep.detected) = {}
        /\ ExcludedIds \cap Range(IdList(CandidatesOf(deep.filtered))) = {}

\* the handler is through with a candidate of each class, an excluded one
\* with a resume text among them, and Phase B has run
C24_Witness ==
    /\ PhaseADone /\ HandlerDone
    /\ candidates_matched_lever # <<>>
    /\ deep.detected # <<>>
    /\ \E c \in Range(all_candidates) : PermanentlyExcluded(c) /\ HasResume(c)

\* C25: with a filter set the resume fetch is never called for a candidate
\* Phase A excluded, no resume is fetched before Phase A has classified all
\* candidates, and the fetch is called at most once per remaining candidate
C25_FetchOnlyAfterPhaseA ==
    HasFilters =>
        /\ ExcludedIds \cap Range(fetched) = {}
        /\ ~PhaseADone => fetched = <<>>
        /\ \A a, b \in DOMAIN fetched : a # b => fetched[a] # fetched[b]
        /\ Len(fetched) <= Len(candidates_to_fetch)
        /\ fetched = SubSeq(IdList(candidates_matched_lever \o candidates_no_location),
                            1, Len(fetched))

\* every resume of the candidates Phase A left is fetched, two at least,
\* and none of a candidate it excluded
C25_Witness ==
    /\ PhaseADone
    /\ Len(fetched) >= 2
    /\ Len(fetched) = Len(candidates_to_fetch)
    /\ ExcludedIds # {}

\* C28: filter_candidates_with_resumes_by_location, which expands the region
\* terms into their cities once, keeps exactly the items whose candidates
\* filter_candidates_by_location keeps for the same filter string and the
\* same resume texts, in the same order: the expansion changes no match
\* decision, also for a candidate whose location is the region name itself
\* or shares words with it
C28_PreExpansionKeepsTheSame ==
    (fpc = "once" /\ once.fn = WithResumes)
    => CandidatesOf(once.run.filtered) =
           filter_candidates_by_location(all_candidates, filter_text,
                                         ResumeTexts(all_candidates)).filtered

\* C10: with a non-empty filter filter_candidates_by_location keeps a
\* candidate whose location is resolved exactly when locations_match holds
\* for the location and at least one term of the filter; of the candidates
\* 1 (San Francisco, CA), 2 (Austin, TX) and 3 (Seattle, WA, in the resume
\* only) the filter California, Washington keeps 1 and 3
C10_KeptIffSomeTermMatches ==
    (DirectCallDone /\ once.fn # WithResumes /\ ~IsBlank(filter_text)) =>
        /\ \A k \in DOMAIN all_candidates :
              Truthy(ResolvedFor(all_candidates[k])) =>
                  (all_candidates[k] \in Range(once.run.filtered)
                       <=> \E t \in Range(SplitFilter(filter_text)) :
                              LocationsMatch(t, ResolvedFor(all_candidates[k]), FALSE))
        /\ (/\ once.fn = "filter_candidates_by_location"
            /\ [k \in DOMAIN all_candidates |-> all_candidates[k].id] = <<"1", "2", "3">>
            /\ SplitFilter(filter_text) = <<"California", "Washington">>)
               => [k \in DOMAIN once.run.filtered |-> once.run.filtered[k].id] = <<"1", "3">>

C10_Witness ==
    /\ fpc = "once"
    /\ once.fn = "filter_candidates_by_location"
    /\ all_candidates = <<CandidatePool[1], CandidatePool[2], CandidatePool[3]>>
    /\ SplitFilter(filter_text) = <<"California", "Washington">>
    /\ once.run.filtered = <<CandidatePool[1], CandidatePool[3]>>
    /\ once.run.matches = 5

(***************************************************************************)
(* Claims about the location functions (CallSpec, and FilterSpec where a   *)
(* filter calls them)                                                      *)
(***************************************************************************)
DetectDone ==
    lpc = "returned" /\ lcall.fn = "get_candidate_location_multi_source"

ResumeLocationOf(resume_text) ==
    IF Truthy(resume_text) THEN extract_location_from_resume(resume_text) ELSE None

\* the locations the phone numbers of a call give, in the order of the numbers
PhoneLocationsOf(candidate, resume_text) ==
    SelectSeq([k \in DOMAIN PhoneNumbers(candidate, resume_text) |->
                   IF Strip(PhoneNumbers(candidate, resume_text)[k]) = "" THEN None
                   ELSE get_location_from_phone_number(
                            Strip(PhoneNumbers(candidate, resume_text)[k]))],
              LAMBDA location : location # None)

HasStructured(candidate) ==
    StructuredLocation(candidate) # None /\ Strip(StructuredLocation(candidate)) # ""

\* C11: the detector follows a strict priority. A candidate with a non-empty
\* structured location gets that location whatever the resume and the phone
\* numbers say; the location of the resume text is returned only without a
\* structured location; a location derived from a phone number only when
\* neither of the two exists.
C11_StrictSourcePriority ==
    DetectDone =>
        IF HasStructured(lcall.args[1])
        THEN lret = Strip(StructuredLocation(lcall.args[1]))
        ELSE IF ResumeLocationOf(lcall.args[2]) # None
        THEN lret = ResumeLocationOf(lcall.args[2])
        ELSE IF PhoneLocationsOf(lcall.args[1], lcall.args[2]) # <<>>
        THEN lret = Head(PhoneLocationsOf(lcall.args[1], lcall.args[2]))
        ELSE lret = None

\* test 7 of test_multi_source_location.py: all three sources are there and
\* disagree, the structured location is returned
C11_Witness ==
    /\ DetectDone
    /\ lcall.args[1].id = "126"
    /\ lcall.args[2] = "Seattle, WA\nSoftware Engineer"
    /\ ResumeLocationOf(lcall.args[2]) = "Seattle, WA"
    /\ PhoneLocationsOf(lcall.args[1], lcall.args[2]) = <<"California">>
    /\ lret = "Miami, FL"

\* no phone number of the call has a description: it is blank, it does not
\* parse or the geocoder knows nothing about it
NoPhoneDescribed(candidate, resume_text) ==
    \A k \in DOMAIN PhoneNumbers(candidate, resume_text) :
        \/ Strip(PhoneNumbers(candidate, resume_text)[k]) = ""
        \/ GeocoderDescription(AssumeUS(KeepChars(
               Strip(PhoneNumbers(candidate, resume_text)[k]), DigitSet \cup {"+"})))
              \in {"", Raised}

NoSourceFor(candidate, resume_text) ==
    /\ ~HasStructured(candidate)
    /\ ResumeLocationOf(resume_text) = None
    /\ NoPhoneDescribed(candidate, resume_text)

\* NoSourceFor on the candidates and resume texts of the filter runs,
\* computed once
NoSourceTable == [p \in DOMAIN LocationTable |-> NoSourceFor(p[1], p[2])]

\* the resume text a direct call of once.fn hands to the detector
ResumeUsedFor(candidate) ==
    IF once.fn = "filter_candidates_by_location_without_resumes" THEN None
    ELSE get_resume_text_for_candidate(candidate.id)

\* C12: for a candidate none of whose sources yields a location (no
\* structured field, no location in the resume text, no phone number that
\* has a description, a number that does not parse included) the detector
\* returns None and raises nothing, and a filter function with a non-empty
\* filter leaves the candidate out of the list it returns
C12_NoLocationIsExcluded ==
    (DirectCallDone /\ ~IsBlank(filter_text)) =>
        \A k \in DOMAIN all_candidates :
            NoSourceTable[<<all_candidates[k], ResumeUsedFor(all_candidates[k])>>] =>
                /\ ResolvedFor(all_candidates[k]) = None
                /\ all_candidates[k] \notin Range(ReturnedCandidates(once))

\* a candidate whose only phone number does not parse is filtered out while
\* another candidate is kept
C12_Witness ==
    /\ fpc = "once"
    /\ ~IsBlank(filter_text)
    /\ once.run.filtered # <<>>
    /\ \E k \in DOMAIN all_candidates :
          /\ all_candidates[k].phones # <<>>
          /\ ParseRaises(AssumeUS(KeepChars(all_candidates[k].phones[1],
                                            DigitSet \cup {"+"})))
          /\ NoSourceTable[<<all_candidates[k], ResumeUsedFor(all_candidates[k])>>]
          /\ all_candidates[k].id \in Range(once.run.detected)
          /\ all_candidates[k] \notin Range(ReturnedCandidates(once))

MatchDone == lpc = "returned" /\ lcall.fn = "locations_match"

\* the two arguments of the call resolve to the same country
SameCountry(norm1, norm2) ==
    /\ Truthy(norm1.country) /\ Truthy(norm2.country)
    /\ Lower(norm1.country) = Lower(norm2.country)

\* the states are equal when both sides have one
StatesAgree(norm1, norm2) ==
    (Truthy(norm1.state) /\ Truthy(norm2.state))
        => Lower(norm1.state) = Lower(norm2.state)

\* the call expands location1 to the cities of a region and one of them
\* matches location2
RegionCityMatches(location1, location2, expanded) ==
    /\ ~expanded
    /\ Len(expand_region(location1)) > 1
    /\ \E k \in DOMAIN expand_region(location1) :
          locations_match(expand_region(location1)[k], location2, TRUE)

MatchIs(location1, location2, result) ==
    (MatchDone /\ lcall.args[1] = location1 /\ lcall.args[2] = location2)
        => lret = result

\* C13 as it is stated: when both sides resolve to the same country,
\* locations_match returns the equality of the two states if both sides have
\* a state and true if at most one side has a state; "California" vs "CA" is
\* true and "California" vs "Texas" is false
C13_SameCountryComparesStates ==
    /\ (/\ MatchDone /\ Truthy(lcall.args[1]) /\ Truthy(lcall.args[2])
        /\ SameCountry(normalize_location(lcall.args[1]),
                       normalize_location(lcall.args[2])))
          => lret = StatesAgree(normalize_location(lcall.args[1]),
                                normalize_location(lcall.args[2]))
    /\ MatchIs("California", "CA", TRUE)
    /\ MatchIs("California", "Texas", FALSE)

\* C13, amended: when both sides resolve to the same country and no member
\* city of a region named in the first argument matches the second argument,
\* locations_match returns the equality of the two states if both sides have
\* a state and true if at most one side has a state; "California" vs "CA" is
\* true and "California" vs "Texas" is false
C13_SameCountryComparesStatesUnlessRegion ==
    /\ (/\ MatchDone /\ Truthy(lcall.args[1]) /\ Truthy(lcall.args[2])
        /\ SameCountry(normalize_location(lcall.args[1]),
                       normalize_location(lcall.args[2]))
        /\ ~RegionCityMatches(lcall.args[1], lcall.args[2], lcall.args[3]))
          => lret = StatesAgree(normalize_location(lcall.args[1]),
                                normalize_location(lcall.args[2]))
    /\ MatchIs("California", "CA", TRUE)
    /\ MatchIs("California", "Texas", FALSE)

\* a term that names a region and a state, no city of the region matches:
\* the states decide
C13_Witness ==
    /\ MatchDone
    /\ lcall.args = <<"Bay Area, CA", "Philadelphia, PA", FALSE>>
    /\ Len(expand_region(lcall.args[1])) > 1
    /\ SameCountry(normalize_location(lcall.args[1]), normalize_location(lcall.args[2]))
    /\ normalize_location(lcall.args[1]).state = "California"
    /\ normalize_location(lcall.args[2]).state = "Pennsylvania"
    /\ lret = FALSE

\* both sides resolve to a country and the two countries differ
CountriesDiffer(norm1, norm2) ==
    /\ Truthy(norm1.country) /\ Truthy(norm2.country)
    /\ Lower(norm1.country) # Lower(norm2.country)

\* the call expands no region: it is made with _expanded set, or location1
\* holds no region name
NoExpansion(location1, expanded) == expanded \/ Len(expand_region(location1)) = 1

\* C14: a country mismatch is a hard veto. When the filter term and the
\* candidate location both resolve to a country, the two countries differ
\* and the two strings are not equal ignoring case, locations_match, with no
\* region expansion, returns false, also when the two strings share a city
\* name or a token
C14_CountryMismatchIsVeto ==
    (/\ MatchDone /\ Truthy(lcall.args[1]) /\ Truthy(lcall.args[2])
     /\ NoExpansion(lcall.args[1], lcall.args[3])
     /\ CountriesDiffer(normalize_location(lcall.args[1]),
                        normalize_location(lcall.args[2]))
     /\ Lower(lcall.args[1]) # Lower(lcall.args[2]))
        => lret = FALSE

\* the two sides share the city and a token and lie in different countries
C14_Witness ==
    /\ MatchDone
    /\ lcall.args = <<"Paris, Texas", "Paris, Canada", FALSE>>
    /\ normalize_location(lcall.args[1]).city = normalize_location(lcall.args[2]).city
    /\ "paris" \in Words(Lower(lcall.args[1])) \cap Words(Lower(lcall.args[2]))
    /\ normalize_location(lcall.args[1]).country = "United States"
    /\ normalize_location(lcall.args[2]).country = "Canada"
    /\ lret = FALSE

\* the location is a name of the United States
NamesUnitedStates(location) ==
    Lower(Strip(location)) \in {"united states", "usa", "us"}

\* C15: when one side resolves to a US state and the other side names the
\* United States as a country, locations_match returns true; in particular
\* locations_match("California", "United States") is true, and the term
\* "United States" matches every location that has a US state
C15_StateMatchesUnitedStates ==
    /\ (/\ MatchDone /\ Truthy(lcall.args[1]) /\ Truthy(lcall.args[2])
        /\ \/ /\ Truthy(normalize_location(lcall.args[1]).state)
              /\ NamesUnitedStates(lcall.args[2])
           \/ /\ Truthy(normalize_location(lcall.args[2]).state)
              /\ NamesUnitedStates(lcall.args[1]))
          => lret = TRUE
    /\ MatchIs("California", "United States", TRUE)

\* the term holds the name of region k of REGION_MAPPINGS
NamesRegion(term, k) == Contains(Strip(Lower(term)), REGION_MAPPINGS[k].name)

\* the location is "<member city>, <state>" for a member city of region k
MemberOf(location, k) ==
    \E i \in DOMAIN MemberLocations[k] :
        /\ location = MemberLocations[k][i]
        /\ Lower(Strip(Split(location, {","})[1])) = REGION_MAPPINGS[k].cities[i]

RegionCallDone ==
    /\ MatchDone /\ ~lcall.args[3]
    /\ Truthy(lcall.args[1]) /\ Truthy(lcall.args[2])

C17_RegionTermRejectsOthers ==
    /\ (/\ RegionCallDone
        /\ lcall.args[1] \in {"Bay Area", "San Francisco Bay Area", "Silicon Valley",
                              "NYC Metro"}
        /\ Truthy(normalize_location(lcall.args[2]).city)
        /\ Lower(normalize_location(lcall.args[2]).city)
              \notin Range(expand_region(lcall.args[1])))
          => lret = FALSE
    /\ (/\ RegionCallDone
        /\ \/ /\ lcall.args[1] \in {"Bay Area", "San Francisco Bay Area"}
              /\ lcall.args[2] \in {"Los Angeles, CA", "Seattle, WA"}
           \/ /\ lcall.args[1] = "Silicon Valley"
              /\ lcall.args[2] \in {"San Francisco, CA", "Los Angeles, CA"}
           \/ /\ lcall.args[1] = "NYC Metro"
              /\ lcall.args[2] \in {"Philadelphia, PA", "Boston, MA"})
          => lret = FALSE

NormalizeDone == lpc = "returned" /\ lcall.fn = "normalize_location"

\* the delimiter-separated tokens of a location, stripped, the empty ones
\* dropped
TokensOf(location) ==
    StripAndDropEmpty(Split(Strip(location), {",", ";", "/", "-"}))

IsStateToken(part) == StateLookup(part).name # None

\* the country lookup hits: it is made for a token without a space that is
\* none of the city prefix words
IsCountryToken(part) ==
    /\ ~IsStateToken(part)
    /\ ~Contains(part, " ") /\ Lower(part) \notin CityPrefixWords
    /\ CountryLookup(part).name_short # None

\* the last token of the kind, 0 without one
LastToken(parts, Kind(_)) ==
    IF \E k \in DOMAIN parts : Kind(parts[k])
    THEN CHOOSE k \in DOMAIN parts :
             Kind(parts[k]) /\ \A j \in DOMAIN parts : Kind(parts[j]) => j <= k
    ELSE 0

IsPlaceToken(part) == IsStateToken(part) \/ IsCountryToken(part)

IsCityToken(part) == ~IsPlaceToken(part)

\* the first token that is no state and no country, None without one
FirstCityToken(parts) ==
    IF \E k \in DOMAIN parts : IsCityToken(parts[k])
    THEN parts[CHOOSE k \in DOMAIN parts :
                   IsCityToken(parts[k]) /\ \A j \in 1..(k - 1) : ~IsCityToken(parts[j])]
    ELSE None

\* the descriptor the tokens give when each is classified in order
ClassifiedInOrder(parts) ==
    [city |-> FirstCityToken(parts),
     state |-> IF LastToken(parts, IsStateToken) = 0 THEN None
               ELSE StateLookup(parts[LastToken(parts, IsStateToken)]).name,
     state_abbr |-> IF LastToken(parts, IsStateToken) = 0 THEN None
                    ELSE StateLookup(parts[LastToken(parts, IsStateToken)]).abbr,
     country |-> IF LastToken(parts, IsPlaceToken) = 0 THEN None
                 ELSE IF IsStateToken(parts[LastToken(parts, IsPlaceToken)])
                 THEN "United States"
                 ELSE CountryLookup(parts[LastToken(parts, IsPlaceToken)]).name_short]

\* C18: normalize_location classifies each delimiter-separated token in
\* order: as a state if the state lookup hits, else as a country if the
\* country lookup hits, else as the city; only the first token that is
\* neither becomes the city. "San Francisco, CA" gives the city
\* "San Francisco", the state "California", the abbreviation "CA" and the
\* country "United States"
C18_TokensClassifiedInOrder ==
    /\ (NormalizeDone /\ lcall.args[2] = "no" /\ Truthy(lcall.args[1])) =>
          /\ lret.city = ClassifiedInOrder(TokensOf(lcall.args[1])).city
          /\ lret.state = ClassifiedInOrder(TokensOf(lcall.args[1])).state
          /\ lret.state_abbr = ClassifiedInOrder(TokensOf(lcall.args[1])).state_abbr
          /\ lret.country = ClassifiedInOrder(TokensOf(lcall.args[1])).country
    /\ (NormalizeDone /\ lcall.args = <<"San Francisco, CA", "no">>) =>
          /\ lret.city = "San Francisco"
          /\ lret.state = "California"
          /\ lret.state_abbr = "CA"
          /\ lret.country = "United States"

\* a city, a country and a second token that is neither: the first one is
\* the city
C18_Witness ==
    /\ NormalizeDone
    /\ lcall.args = <<"San Jose, Canada, Toronto", "no">>
    /\ TokensOf(lcall.args[1]) = <<"San Jose", "Canada", "Toronto">>
    /\ lret.city = "San Jose"
    /\ lret.state = None
    /\ lret.country = "Canada"

\* C19: normalize_location never raises. An empty or null input gives the
\* descriptor with every field null and the original ""; a country lookup
\* that fails is swallowed; original is always set, to the stripped input;
\* a descriptor with a state has a country
C19_NormalizeNeverRaises ==
    NormalizeDone =>
        /\ lret.original # Raised
        /\ ~Truthy(lcall.args[1]) => lret = EmptyNorm
        /\ Truthy(lcall.args[1]) => lret.original = Strip(lcall.args[1])
        /\ Truthy(lret.state) => Truthy(lret.country)

\* cc.convert raises during the call, once in the first lookup and once
\* after the country was found; a descriptor is returned all the same
C19_Witness ==
    /\ NormalizeDone
    /\ lcall.args[1] = "Toronto, Canada"
    /\ lcall.args[2] # "no"
    /\ lret.original = "Toronto, Canada"
    /\ lret.city = "Toronto"
    /\ lret.country = (IF lcall.args[2] = "ISO3" THEN "Canada" ELSE None)
    /\ lret.country_code = None

\* C26: when a token resolves to a state, normalize_location sets the
\* country to the United States only if no country is set yet: the country
\* resolved from an earlier token of the same string is left unchanged by a
\* later state token, so the country returned is the one of the last country
\* token whenever the string has one
C26_StateKeepsEarlierCountry ==
    (NormalizeDone /\ lcall.args[2] = "no" /\ Truthy(lcall.args[1])
       /\ LastToken(TokensOf(lcall.args[1]), IsCountryToken) > 0)
    => lret.country =
         CountryLookup(TokensOf(lcall.args[1])[
             LastToken(TokensOf(lcall.args[1]), IsCountryToken)]).name_short

\* C30: locations_match is symmetric when no region is expanded: for two
\* non-empty strings neither of which holds a region name, or with _expanded
\* set, locations_match(a, b) = locations_match(b, a); and it returns false
\* whenever an argument is empty or None
C30_MatchIsSymmetric ==
    MatchDone =>
        /\ (~Truthy(lcall.args[1]) \/ ~Truthy(lcall.args[2])) => lret = FALSE
        /\ (/\ Truthy(lcall.args[1]) /\ Truthy(lcall.args[2])
            /\ NoExpansion(lcall.args[1], lcall.args[3])
            /\ NoExpansion(lcall.args[2], lcall.args[3]))
           => lret = locations_match(lcall.args[2], lcall.args[1], lcall.args[3])

\* a state name matched with a country name, which has no state: two
\* different strings without a region name, called without _expanded
C30_Witness ==
    /\ MatchDone /\ lret = TRUE /\ ~lcall.args[3]
    /\ Truthy(lcall.args[1]) /\ Truthy(lcall.args[2])
    /\ NoExpansion(lcall.args[1], FALSE) /\ NoExpansion(lcall.args[2], FALSE)
    /\ Truthy(normalize_location(lcall.args[1]).state)
    /\ ~Truthy(normalize_location(lcall.args[2]).state)

(***************************************************************************)
(* Claims about fetch_candidates_for_posting (FetchSpec)                   *)
(***************************************************************************)
\* the call is over: it returned or it raised
FetchOver == apc \in {"returned", "TypeError", "Exception"}

\* the API answered every request of the call with status 200
AllPagesOK ==
    apc # "Exception" /\ \A k \in DOMAIN api_pages : api_pages[k].status_code = StatusOK

\* C20: fetch_candidates_for_posting takes an include_archived flag. With
\* include_archived false it returns only candidates that are not archived
\* and sends no 'expand' parameter to the API; with include_archived true it
\* returns archived and active candidates alike and sends expand=archived
C20_IncludeArchivedFlag ==
    (FetchOver /\ Len(fetch_args) = 2 /\ AllPagesOK) =>
        /\ apc = "returned"
        /\ api_requests # <<>>
        /\ ~fetch_args[2] =>
              /\ \A k \in DOMAIN fetch_result : ~fetch_result[k].archived
              /\ \A k \in DOMAIN api_requests : api_requests[k].expand = None
        /\ fetch_args[2] =>
              /\ \A k \in DOMAIN api_requests : api_requests[k].expand = "archived"

====
